---- MODULE Spec2Model ----
(***************************************************************************)
(* The agentik task runner: the task graph model (runner/roadmap.py), the  *)
(* run state store (runner/state.py, runner/rollback.py) and the scheduler *)
(* with its single-task, milestone and parallel-batch pipelines            *)
(* (runner/pipeline.py).                                                   *)
(*                                                                         *)
(* A task is identified by its integer id: _task_heading is injective on   *)
(* ids, so the heading strings of the source are the ids here.             *)
(***************************************************************************)
EXTENDS Integers, Sequences, FiniteSets, TLC

\* ---- bounds of the model ------------------------------------------------
NumTasks == 3          \* tasks in the roadmap
MaxEdges == 3          \* depends_on entries in the whole roadmap
MaxCalls == 3          \* record_project_spend calls in a row
MaxDurations == 2      \* entries of task_durations (it grows without limit)
MaxFailed == 2         \* entries of the failed list (it grows without limit)
MONTHLY_LIMIT_TOKENS == 2   \* budget.json: monthly_limit_tokens

TaskIds == 1..NumTasks

VARIABLES
    \* the roadmap and budget.json: read, never written
    all_tasks,            \* get_tasks: task ids in roadmap order
    depends_on,           \* the depends_on field of every task
    agent,                \* the agent field of every task
    outputs,              \* the outputs field of every task, as run_checks reads it
    review,               \* the review field of the roadmap and of every task
    MAX_ATTEMPTS,
    MAX_PARALLEL_AGENTS,
    \* .runner_state.json
    state,
    \* main and the pipelines
    pc,                   \* position of the running process
    task,                 \* process_task / process_milestone argument
    resume_attempt,       \* process_task argument
    attempt,              \* loop variable of the attempt loops
    fix_logs,             \* local fix_logs: NoLogs, or the length of the test output
    batch,                \* process_parallel_batch argument
    idx,                  \* loop index of the per-task loops of a batch
    results,              \* process_parallel_batch: the builds that have finished
    done_set,             \* main's done_set
    ready,                \* main's ready
    layers,               \* print_dependency_graph's layers
    \* history of the run
    via,                  \* who called the running pipeline: "resume" or "loop"
    calls,                \* build/fix agent invocations of the running process_task
    fails,                \* failed build/test cycles of the running process_task
    run_failed,           \* tasks recorded failed by this process
    events,               \* what the pipeline call main made last has done so far
    \* the project's budget.json and the monthly counter of the budget state
    \* file: written by record_project_spend, read by nothing the scheduler
    \* decides on, and left as they are by the scheduler's specifications
    budget,
    monthly_calls,
    spend_calls,          \* history: the arguments of the record_project_spend calls
    \* the characters of the fix_logs entry of .runner_state.json, as the
    \* positions <<first, last>> they have in the test output they come from;
    \* followed by SpecState only, the other specifications keep the length
    fix_logs_text,
    \* the git block of ROADMAP.json, the git commands issued so far and the
    \* value the last git function returned: followed by SpecGit only
    git_block,
    git_commands,
    returned,
    \* the project directory besides ROADMAP.json, budget.json and
    \* .runner_state.json: the paths that exist; followed by SpecDry only
    tree,
    \* the bytes of .runner_state.json, of budget.json and of the monthly
    \* budget file, as the form they have: "json" is the whole text of the
    \* value the variable holds, "cut" a proper prefix of a text being written
    file_text,
    \* the cumulative token counter that opencode stats reports
    usage,
    \* the worker threads of the ThreadPoolExecutor of a batch build
    workers

roadmap_vars == <<all_tasks, depends_on, agent, outputs, review, MAX_ATTEMPTS,
                  MAX_PARALLEL_AGENTS>>
local_vars == <<task, resume_attempt, attempt, fix_logs, batch, idx, results>>
hist_vars == <<via, calls, fails, run_failed>>
budget_vars == <<budget, monthly_calls, spend_calls>>
call_vars == <<fix_logs_text, git_block, git_commands, returned, tree>>
pool_vars == <<file_text, usage, workers>>
vars == <<roadmap_vars, state, pc, local_vars, done_set, ready, layers, hist_vars, events,
          budget_vars, call_vars, pool_vars>>

NoTask == 0               \* current_task is None
NoLogs == -1              \* fix_logs is None

Range(s) == {s[i] : i \in DOMAIN s}

\* ---- runner/roadmap.py --------------------------------------------------

is_milestone_task(t) == agent[t] = "milestone"

parse_task_graph ==
    [t \in Range(all_tasks) |-> {n \in depends_on[t] : n \in Range(all_tasks)}]

\* variant: one placed dependency is enough
deps_placed_any(g, t, placed) == g[t] = {} \/ g[t] \cap placed # {}

\* get_task_layers, line 257: all(d in placed for d in graph.get(t, []))
deps_placed(g, t, placed) == \A d \in g[t] : d \in placed

\* variant: all the candidate milestones share a layer
pick_layer_all(milestones, non_milestones) ==
    IF milestones # <<>> THEN milestones ELSE non_milestones

\* get_task_layers, lines 268-271
pick_layer(milestones, non_milestones) ==
    IF milestones # <<>> THEN <<milestones[1]>> ELSE non_milestones

\* variant: without a candidate the first remaining task is taken alone
candidates_first(found, remaining) == IF found = <<>> THEN <<remaining[1]>> ELSE found

\* get_task_layers, lines 259-261: the fallback for cycles
candidates_of(found, remaining) == IF found = <<>> THEN remaining ELSE found

\* variant: only the first task of the layer leaves remaining
still_remaining_but_first(remaining, layer, placed) ==
    LET Left(t) == t # layer[1] IN SelectSeq(remaining, Left)

\* get_task_layers, line 275: [t for t in remaining if t not in placed]
still_remaining(remaining, layer, placed) ==
    LET Left(t) == t \notin placed IN SelectSeq(remaining, Left)

\* get_task_layers, lines 255-275: the iterations of the while loop
RECURSIVE layers_from(_, _, _)
layers_from(remaining, g, placed) ==
    IF remaining = <<>> THEN <<>>
    ELSE LET Ok(t) == deps_placed(g, t, placed)
             found == SelectSeq(remaining, Ok)
             candidates == candidates_of(found, remaining)
             IsMs(t) == is_milestone_task(t)
             NotMs(t) == ~is_milestone_task(t)
             milestones == SelectSeq(candidates, IsMs)
             non_milestones == SelectSeq(candidates, NotMs)
             layer == pick_layer(milestones, non_milestones)
             now == placed \cup Range(layer)
         IN <<layer>> \o layers_from(still_remaining(remaining, layer, now), g, now)

get_task_layers(tasks, g) == layers_from(tasks, g, {})

\* variant: one done dependency is enough
deps_met_any(g, t, done) == g[t] = {} \/ g[t] \cap done # {}

\* get_ready_tasks, line 292: all(d in done for d in graph.get(t, []))
deps_met(g, t, done) == \A d \in g[t] : d \in done

RECURSIVE sort_by_id(_)
sort_by_id(s) ==
    IF s = <<>> THEN <<>>
    ELSE LET m == CHOOSE x \in Range(s) : \A y \in Range(s) : x <= y
             Rest(t) == t # m
         IN <<m>> \o sort_by_id(SelectSeq(s, Rest))

\* variant: the result sorted by id
undone_met_sorted(layer, g, done) ==
    LET Sel(t) == t \notin done /\ deps_met(g, t, done)
    IN sort_by_id(SelectSeq(layer, Sel))

\* get_ready_tasks, lines 289-292
undone_met(layer, g, done) ==
    LET Undone(t) == t \notin done
        Met(t) == deps_met(g, t, done)
    IN SelectSeq(SelectSeq(layer, Undone), Met)

\* get_ready_tasks, lines 288-293: the loop over the layers
RECURSIVE first_undone(_, _, _, _)
first_undone(ls, i, g, done) ==
    IF i > Len(ls) THEN <<>>
    ELSE IF \E t \in Range(ls[i]) : t \notin done
         THEN undone_met(ls[i], g, done)
         ELSE first_undone(ls, i + 1, g, done)

\* variant: no layers, every undone task with its dependencies done
get_ready_tasks_flat(tasks, g, done) == undone_met(tasks, g, done)

get_ready_tasks(tasks, g, done) == first_undone(get_task_layers(tasks, g), 1, g, done)

\* ---- runner/review.py -----------------------------------------------------

\* a roadmap without a "review" key, in the project or in a task
no_review == [project |-> "absent", tasks |-> [t \in TaskIds |-> "absent"]]

\* a roadmap with "review": true and no "review" key in a task
project_review == [project |-> "True", tasks |-> [t \in TaskIds |-> "absent"]]

\* is_review_enabled, lines 12-34: the task's flag when it has one, else the
\* project's; a flag counts when it is the JSON value true
is_review_enabled(t) ==
    IF review.tasks[t] # "absent" THEN review.tasks[t] = "True" ELSE review.project = "True"

\* ---- runner/state.py, runner/rollback.py --------------------------------

_raw_state_absent ==
    [current_task |-> NoTask, attempt |-> 0, fix_logs |-> NoLogs,
     completed |-> <<>>, task_started_at |-> FALSE, task_durations |-> 0,
     failed |-> <<>>]

_completed_tasks(st) == {st.completed[i].task : i \in DOMAIN st.completed}

task_done(t) == t \in _completed_tasks(state)

\* variant: the saved attempt index is not returned
load_runner_state_reset ==
    IF state.current_task # NoTask THEN [state EXCEPT !.attempt = 0] ELSE _raw_state_absent

\* load_runner_state, lines 285-290
load_runner_state == IF state.current_task # NoTask THEN state ELSE _raw_state_absent

FixLogsLimit == 3000

\* the characters of a text, as positions of the test output: none of them
\* (the empty string), and the text that is None
EmptyText == <<1, 0>>
NoText == <<0, -1>>

\* the whole test output of the given length, or None
test_output(logs) == IF logs = NoLogs THEN NoText ELSE <<1, logs>>

\* variant: the first 3000 characters are kept
first_chars(text) ==
    IF text # NoText /\ text[2] - text[1] + 1 > FixLogsLimit
    THEN <<text[1], text[1] + FixLogsLimit - 1>>
    ELSE text

\* save_runner_state, lines 276-278: fix_logs[-3000:] if fix_logs and
\* len(fix_logs) > 3000 else fix_logs
last_chars(text) ==
    IF text # NoText /\ text[2] - text[1] + 1 > FixLogsLimit
    THEN <<text[2] - FixLogsLimit + 1, text[2]>>
    ELSE text

\* save_runner_state, lines 276-278: fix_logs[-3000:] of logs longer than 3000
truncated(logs) == IF logs # NoLogs /\ logs > FixLogsLimit THEN FixLogsLimit ELSE logs

\* variant: the state is built from nothing instead of from the file
save_runner_state_fresh(st, t, a, logs) ==
    [_raw_state_absent EXCEPT !.current_task = t,
                              !.attempt = a,
                              !.fix_logs = truncated(logs),
                              !.task_started_at = (a = 0)]

\* variant: the attempt index is not written
save_runner_state_no_attempt(st, t, a, logs) ==
    [st EXCEPT !.current_task = t,
               !.fix_logs = truncated(logs),
               !.task_started_at = (a = 0 /\ ~st.task_started_at) \/ st.task_started_at]

save_runner_state(st, t, a, logs) ==
    [st EXCEPT !.current_task = t,
               !.attempt = a,
               !.fix_logs = truncated(logs),
               !.task_started_at = (a = 0 /\ ~st.task_started_at) \/ st.task_started_at]

\* variant: the entry is appended whether or not the task is completed
mark_done_again(st, t) ==
    [st EXCEPT !.completed = Append(st.completed, [task |-> t, attempts |-> st.attempt + 1]),
               !.task_durations = IF st.task_started_at THEN @ + 1 ELSE @,
               !.current_task = NoTask,
               !.attempt = 0,
               !.fix_logs = NoLogs,
               !.task_started_at = FALSE]

\* variant: the start time is not cleared
mark_done_keeps_start(st, t) ==
    [st EXCEPT !.completed = IF t \notin _completed_tasks(st)
                             THEN Append(st.completed, [task |-> t, attempts |-> st.attempt + 1])
                             ELSE st.completed,
               !.task_durations = IF st.task_started_at THEN @ + 1 ELSE @,
               !.current_task = NoTask,
               !.attempt = 0,
               !.fix_logs = NoLogs]

\* mark_done, lines 309-328
mark_done(st, t) ==
    [st EXCEPT !.completed = IF t \notin _completed_tasks(st)
                             THEN Append(st.completed, [task |-> t, attempts |-> st.attempt + 1])
                             ELSE st.completed,
               !.task_durations = IF st.task_started_at THEN @ + 1 ELSE @,
               !.current_task = NoTask,
               !.attempt = 0,
               !.fix_logs = NoLogs,
               !.task_started_at = FALSE]

\* variant: the saved attempt index is left in place
mark_task_failed_keeps_attempt(st, t, attempts) ==
    [st EXCEPT !.current_task = NoTask,
               !.fix_logs = NoLogs,
               !.task_started_at = FALSE,
               !.failed = Append(st.failed, [task |-> t, attempts |-> attempts])]

\* mark_task_failed, lines 62-79, with the error_info its caller gives it
mark_task_failed(st, t, attempts) ==
    [st EXCEPT !.current_task = NoTask,
               !.attempt = 0,
               !.fix_logs = NoLogs,
               !.task_started_at = FALSE,
               !.failed = Append(st.failed, [task |-> t, attempts |-> attempts])]

_failed_tasks(st) == {st.failed[i].task : i \in DOMAIN st.failed}


\* ---- runner/workspace.py, runner/rollback.py: the git functions ----------

\* ROADMAP.json without a "git" key, or with one that is not an object
git_absent == [dict |-> FALSE, enabled |-> "absent"]

\* the "git" value of ROADMAP.json: not an object, or an object whose
\* "enabled" is absent, false, true, the string "true" or the number 1
GitBlocks ==
    {git_absent} \cup {[dict |-> TRUE, enabled |-> e] :
                          e \in {"absent", "False", "True", "'true'", "1"}}

\* git_block.get("enabled", False)
enabled_of(g) == IF g.enabled = "absent" THEN "False" ELSE g.enabled

\* variant: any true value of "enabled" opts in
is_git_managed_truthy(g) == g.dict /\ enabled_of(g) \in {"True", "'true'", "1"}

\* is_git_managed, roadmap.py lines 177-183
is_git_managed(g) == g.dict /\ enabled_of(g) = "True"

\* _git_push_if_remote, workspace.py lines 420-423
_git_push_if_remote(has_remote) ==
    <<"remote get-url origin">> \o (IF has_remote THEN <<"push origin">> ELSE <<>>)

\* ensure_feature_branch, workspace.py lines 464-477: the commands it issues
\* and what it returns; created: git checkout -b succeeded
ensure_feature_branch(g, created) ==
    IF ~is_git_managed(g) THEN [cmds |-> <<>>, ret |-> "None"]
    ELSE [cmds |-> IF created THEN <<"checkout -b">> ELSE <<"checkout -b", "checkout">>,
          ret |-> "branch"]

\* commit_and_merge, workspace.py lines 480-508: the commands it issues
commit_and_merge_git(g, has_state, task_outputs, has_remote) ==
    IF ~is_git_managed(g) THEN [cmds |-> <<>>, ret |-> "None"]
    ELSE [cmds |-> (IF has_state THEN <<"add .runner_state.json">> ELSE <<>>)
                   \o (IF task_outputs = "outputs" THEN <<"add outputs">> ELSE <<"add .">>)
                   \o <<"commit", "checkout develop", "merge --no-ff", "branch -d">>
                   \o _git_push_if_remote(has_remote),
          ret |-> "None"]

\* tag_milestone, workspace.py lines 511-529
tag_milestone(g, has_remote) ==
    IF ~is_git_managed(g) THEN [cmds |-> <<>>, ret |-> "None"]
    ELSE [cmds |-> <<"add .", "commit --allow-empty", "tag">>
                   \o _git_push_if_remote(has_remote) \o _git_push_if_remote(has_remote),
          ret |-> "None"]

\* git reset --hard HEAD, as it is logged: with its return code when that is
\* not 0
reset_hard(reset_ok) == IF reset_ok THEN "reset --hard" ELSE "reset --hard (exit 1)"

\* variant: the return code of the reset is not looked at
rollback_feature_branch_goes_on(g, reset_ok) ==
    IF ~is_git_managed(g) THEN [cmds |-> <<>>, ret |-> "False"]
    ELSE [cmds |-> <<reset_hard(reset_ok), "clean -fd", "checkout develop", "branch -D">>,
          ret |-> "True"]

\* rollback_feature_branch, rollback.py lines 9-59; reset_ok: git reset --hard
\* returned 0
rollback_feature_branch(g, reset_ok) ==
    IF ~is_git_managed(g) THEN [cmds |-> <<>>, ret |-> "False"]
    ELSE IF ~reset_ok THEN [cmds |-> <<reset_hard(reset_ok)>>, ret |-> "False"]
    ELSE [cmds |-> <<reset_hard(reset_ok), "clean -fd", "checkout develop", "branch -D">>,
          ret |-> "True"]

\* ---- runner/workspace.py: ensure_workspace_dirs, for a python project ----

\* the paths of a project directory that ensure_workspace_dirs looks at;
\* ".gitignore:logs/" stands for a .gitignore that lists logs/
Files ==
    {"pkg", "pkg/__init__.py", "conftest.py", "tests", "opencode.jsonc", ".git",
     ".gitignore", ".gitignore:logs/", "AGENTS.md"}

\* a file is in a directory that exists, a line in a file that exists
well_formed(tr) ==
    /\ "pkg/__init__.py" \in tr => "pkg" \in tr
    /\ ".gitignore:logs/" \in tr => ".gitignore" \in tr

\* scaffold_ecosystem_configs, lines 103-126: the source root, conftest.py
scaffold_ecosystem_configs(tr) == tr \cup {"pkg", "conftest.py"}

\* _sync_opencode_config, lines 351-356
_sync_opencode_config(tr, has_config) == IF has_config THEN tr \cup {"opencode.jsonc"} ELSE tr

\* ensure_project_git, lines 426-456: the git commands it issues
ensure_project_git_commands(tr, g) ==
    IF ~is_git_managed(g) \/ ".git" \in tr THEN <<>>
    ELSE <<"init", "add .", "commit", "branch -M main", "checkout -b develop">>

\* ensure_project_git, lines 426-456: .gitignore written if absent, .git made
ensure_project_git(tr, g) ==
    IF ~is_git_managed(g) \/ ".git" \in tr THEN tr
    ELSE tr \cup {".git", ".gitignore"}
            \cup (IF ".gitignore" \in tr THEN {} ELSE {".gitignore:logs/"})

\* _ensure_logs_gitignored, lines 648-661
_ensure_logs_gitignored(tr) ==
    IF ".gitignore" \in tr THEN tr \cup {".gitignore:logs/"} ELSE tr

\* ensure_workspace_dirs, lines 620-645: the project directory it leaves
ensure_workspace_dirs(tr, g, has_config) ==
    LET scaffolded == scaffold_ecosystem_configs(tr) \cup {"pkg/__init__.py", "tests"}
        synced == _sync_opencode_config(scaffolded, has_config)
        ignored == _ensure_logs_gitignored(ensure_project_git(synced, g))
    IN ignored \cup {"AGENTS.md"}

\* ensure_workspace_dirs, lines 630-640: budget.json is written if absent
ensure_budget_file(file) ==
    IF file.exists THEN file
    ELSE [exists |-> TRUE, total_tokens |-> 0, total_calls |-> 0, sessions |-> <<>>]

\* ---- the inputs: roadmaps, budget.json, run-state files ------------------

Ascending == [i \in 1..NumTasks |-> i]
Descending == [i \in 1..NumTasks |-> NumTasks + 1 - i]
Orders == {Ascending, Descending}

\* budget.json: max_attempts_per_task, and max_parallel_agents (1 when absent)
AttemptLimits == {1, 2}
ParallelLimits == {1, 2}

\* run_tests: the lengths of the output of a failing test run
LogLengths == {FixLogsLimit, FixLogsLimit + 1}

RECURSIVE edges(_, _)
edges(d, n) == IF n = 0 THEN 0 ELSE Cardinality(d[n]) + edges(d, n - 1)

Graphs == {d \in [TaskIds -> SUBSET TaskIds] : edges(d, NumTasks) <= MaxEdges}

Agents == [TaskIds -> {"build", "milestone"}]

\* a roadmap whose tasks have no "outputs" key
no_outputs == [t \in TaskIds |-> {}]

\* helpers/check_roadmap.py: the checks of run_checks that read ids, depends_on
\* and outputs
check_depends_on ==
    \A t \in DOMAIN depends_on : \A ref \in depends_on[t] : ref \in DOMAIN depends_on /\ ref < t
check_single_root_task == Cardinality({t \in DOMAIN depends_on : depends_on[t] = {}}) = 1

\* check_disjoint_parallel_outputs, lines 403-431: the tasks with the same
\* depends_on are compared two by two
check_disjoint_parallel_outputs ==
    \A a, b \in DOMAIN depends_on :
        (a # b /\ depends_on[a] = depends_on[b]) => outputs[a] \cap outputs[b] = {}

run_checks == check_depends_on /\ check_single_root_task /\ check_disjoint_parallel_outputs

\* ---- runner/state.py: the per-project budget ------------------------------

\* projects/<name>/budget.json does not exist
_budget_absent == [exists |-> FALSE, total_tokens |-> 0, total_calls |-> 0, sessions |-> <<>>]

\* load_project_budget, lines 145-161
load_project_budget(file) ==
    IF file.exists
    THEN [total_tokens |-> file.total_tokens, total_calls |-> file.total_calls,
          sessions |-> file.sessions]
    ELSE [total_tokens |-> 0, total_calls |-> 0, sessions |-> <<>>]

\* variant: the delta is added as it comes
tokens_raw(delta_tokens) == delta_tokens

\* record_project_spend, lines 203 and 209: max(0, delta_tokens)
tokens_counted(delta_tokens) == IF delta_tokens > 0 THEN delta_tokens ELSE 0

\* record_project_spend, lines 199-215: the file it saves
record_project_spend(file, t, phase, delta_tokens, att, parallel_batch) ==
    LET data == load_project_budget(file)
        session == [task |-> t, phase |-> phase, tokens |-> tokens_counted(delta_tokens),
                    attempt |-> att,
                    parallel_with |-> IF Len(parallel_batch) > 1 THEN parallel_batch ELSE <<>>]
    IN [exists |-> TRUE,
        total_tokens |-> data.total_tokens + tokens_counted(delta_tokens),
        total_calls |-> data.total_calls + 1,
        sessions |-> Append(data.sessions, session)]

\* _increment_monthly_calls, lines 117-125
_increment_monthly_calls(n, new_month) == IF new_month THEN 1 ELSE n + 1

\* every file holds the whole text of its value
whole_files == [state |-> "json", budget |-> "json", monthly |-> "json"]

InitLocals ==
    /\ pc = "main"
    /\ task = NoTask
    /\ resume_attempt = 0
    /\ attempt = 0
    /\ fix_logs = NoLogs
    /\ batch = <<>>
    /\ idx = 0
    /\ results = <<>>
    /\ done_set = {}
    /\ ready = <<>>
    /\ layers = <<>>
    /\ via = "none"
    /\ calls = 0
    /\ fails = 0
    /\ run_failed = {}
    /\ events = <<>>
    /\ budget = _budget_absent
    /\ monthly_calls = 0
    /\ spend_calls = <<>>
    /\ fix_logs_text = NoText
    /\ git_commands = <<>>
    /\ returned = "none"
    /\ file_text = whole_files
    /\ usage = 0
    /\ workers = <<>>

\* ---- the task graph model called on any roadmap and any completed list ---

InitGraph ==
    /\ all_tasks \in Orders
    /\ depends_on \in Graphs
    /\ outputs = no_outputs
    /\ agent \in Agents
    /\ MAX_ATTEMPTS = 1
    /\ MAX_PARALLEL_AGENTS = 1
    /\ state = _raw_state_absent
    /\ git_block = git_absent
    /\ tree = {}
    /\ review = no_review
    /\ InitLocals

\* get_task_layers(all_tasks, graph, project_dir) is called
layers_call ==
    /\ pc = "main"
    /\ layers' = get_task_layers(all_tasks, parse_task_graph)
    /\ pc' = "layers"
    /\ UNCHANGED <<roadmap_vars, pool_vars, budget_vars, call_vars, state, local_vars, done_set, ready, hist_vars, events>>

\* get_ready_tasks(all_tasks, graph, done, project_dir) is called, with any done
ready_call ==
    /\ pc = "layers"
    /\ \E done \in SUBSET TaskIds :
          /\ done_set' = done
          /\ ready' = get_ready_tasks(all_tasks, parse_task_graph, done)
    /\ pc' = "graph"
    /\ UNCHANGED <<roadmap_vars, pool_vars, budget_vars, call_vars, state, local_vars, layers, hist_vars, events>>

NextGraph == layers_call \/ ready_call

SpecGraph == InitGraph /\ [][NextGraph]_vars

\* ---- record_project_spend called again and again on a new project --------

\* delta_tokens: negative, zero and positive
Deltas == {-1, 0, 1, 2}

\* a call of record_project_spend, as _invoke_opencode makes it after a run
record_spend_call ==
    /\ Len(spend_calls) < MaxCalls
    /\ \E phase \in {"build", "fix"}, delta_tokens \in Deltas,
          parallel_batch \in {<<>>, <<1, 2>>}, new_month \in BOOLEAN :
          /\ budget' = record_project_spend(budget, 1, phase, delta_tokens, 0, parallel_batch)
          /\ monthly_calls' = _increment_monthly_calls(monthly_calls, new_month)
          /\ spend_calls' = Append(spend_calls,
                                   [task |-> 1, phase |-> phase, delta |-> delta_tokens])
    /\ UNCHANGED <<roadmap_vars, pool_vars, state, pc, local_vars, done_set, ready, layers, hist_vars,
                   events, call_vars>>

NextBudget == record_spend_call

\* a project whose budget.json does not exist yet; its roadmap is a chain
InitBudget ==
    /\ all_tasks = Ascending
    /\ depends_on = [t \in TaskIds |-> IF t = 1 THEN {} ELSE {t - 1}]
    /\ outputs = no_outputs
    /\ agent = [t \in TaskIds |-> "build"]
    /\ MAX_ATTEMPTS = 1
    /\ MAX_PARALLEL_AGENTS = 1
    /\ state = _raw_state_absent
    /\ git_block = git_absent
    /\ tree = {}
    /\ review = no_review
    /\ InitLocals

SpecBudget == InitBudget /\ [][NextBudget]_vars

\* ---- the run state functions called in any order on a new project --------

\* task arguments: two headings of the roadmap
StateTasks == {1, 2}

\* attempt arguments: range(resume_attempt, MAX_ATTEMPTS) of the largest limit
AttemptArgs == {0, 1}

\* fix_logs arguments: None and test outputs up to and beyond the limit
LogArgs == {NoLogs, 0, FixLogsLimit, FixLogsLimit + 1}

\* save_runner_state(project_dir, t, a, logs) is called
save_call ==
    /\ \E t \in StateTasks, a \in AttemptArgs, logs \in LogArgs :
          /\ state' = save_runner_state(state, t, a, logs)
          /\ fix_logs_text' = last_chars(test_output(logs))
          /\ task' = t
          /\ attempt' = a
          /\ fix_logs' = logs
    /\ pc' = "saved"
    /\ UNCHANGED <<roadmap_vars, pool_vars, budget_vars, git_block, git_commands, returned, tree, resume_attempt, batch, idx, results, done_set,
                   ready, layers, hist_vars, events>>

\* mark_done(t, project_dir) is called
mark_done_call ==
    /\ state.task_started_at => state.task_durations < MaxDurations
    /\ \E t \in StateTasks :
          /\ state' = mark_done(state, t)
          /\ task' = t
    /\ fix_logs_text' = NoText
    /\ pc' = "marked_done"
    /\ UNCHANGED <<roadmap_vars, pool_vars, budget_vars, git_block, git_commands, returned, tree, resume_attempt, attempt, fix_logs, batch, idx,
                   results, done_set, ready, layers, hist_vars, events>>

\* mark_task_failed(t, project_dir, error_info) is called
mark_task_failed_call ==
    /\ Len(state.failed) < MaxFailed
    /\ \E t \in StateTasks, attempts \in AttemptLimits :
          /\ state' = mark_task_failed(state, t, attempts)
          /\ task' = t
          /\ attempt' = attempts
    /\ fix_logs_text' = NoText
    /\ pc' = "marked_failed"
    /\ UNCHANGED <<roadmap_vars, pool_vars, budget_vars, git_block, git_commands, returned, tree, resume_attempt, fix_logs, batch, idx, results,
                   done_set, ready, layers, hist_vars, events>>

NextState == save_call \/ mark_done_call \/ mark_task_failed_call

SpecState == InitBudget /\ [][NextState]_vars

\* ---- the git functions called in any order on any roadmap ----------------

\* the commands of the calls are followed up to this many
MaxGitLog == 10

\* the commands of a call are issued and its value is returned
issued(name, r) ==
    /\ git_commands' = git_commands \o r.cmds
    /\ returned' = r.ret
    /\ pc' = name

ensure_call ==
    /\ Len(git_commands) < MaxGitLog
    /\ \E created \in BOOLEAN :
          issued("ensure_feature_branch", ensure_feature_branch(git_block, created))
    /\ UNCHANGED <<roadmap_vars, pool_vars, budget_vars, fix_logs_text, git_block, tree, state, local_vars,
                   done_set, ready, layers, hist_vars, events>>

commit_call ==
    /\ Len(git_commands) < MaxGitLog
    /\ \E has_state, has_remote \in BOOLEAN, task_outputs \in {"outputs", "all"} :
          issued("commit_and_merge",
                 commit_and_merge_git(git_block, has_state, task_outputs, has_remote))
    /\ UNCHANGED <<roadmap_vars, pool_vars, budget_vars, fix_logs_text, git_block, tree, state, local_vars,
                   done_set, ready, layers, hist_vars, events>>

tag_call ==
    /\ Len(git_commands) < MaxGitLog
    /\ \E has_remote \in BOOLEAN :
          issued("tag_milestone", tag_milestone(git_block, has_remote))
    /\ UNCHANGED <<roadmap_vars, pool_vars, budget_vars, fix_logs_text, git_block, tree, state, local_vars,
                   done_set, ready, layers, hist_vars, events>>

rollback_call ==
    /\ Len(git_commands) < MaxGitLog
    /\ \E reset_ok \in BOOLEAN :
          issued("rollback_feature_branch", rollback_feature_branch(git_block, reset_ok))
    /\ UNCHANGED <<roadmap_vars, pool_vars, budget_vars, fix_logs_text, git_block, tree, state, local_vars,
                   done_set, ready, layers, hist_vars, events>>

NextGit == ensure_call \/ commit_call \/ tag_call \/ rollback_call

\* any git block; the rest of the project as in InitBudget
InitGit ==
    /\ all_tasks = Ascending
    /\ depends_on = [t \in TaskIds |-> IF t = 1 THEN {} ELSE {t - 1}]
    /\ outputs = no_outputs
    /\ agent = [t \in TaskIds |-> "build"]
    /\ MAX_ATTEMPTS = 1
    /\ MAX_PARALLEL_AGENTS = 1
    /\ state = _raw_state_absent
    /\ git_block \in GitBlocks
    /\ tree = {}
    /\ review = no_review
    /\ InitLocals

SpecGit == InitGit /\ [][NextGit]_vars

\* ---- dry-run mode started on any project directory ----------------------

\* dry_run, dryrun.py lines 78-91: the tasks that are not completed
dry_run_remaining == {t \in Range(all_tasks) : t \notin _completed_tasks(state)}

\* what both ways into dry-run mode do before and in dry_run
dry_run_mode(name) ==
    /\ \E has_config \in BOOLEAN :
          tree' = ensure_workspace_dirs(tree, git_block, has_config)
    /\ budget' = ensure_budget_file(budget)
    /\ git_commands' = git_commands \o ensure_project_git_commands(tree, git_block)
    /\ done_set' = Range(all_tasks) \ dry_run_remaining
    /\ pc' = name

\* agentik.py, lines 31-41: agentik --dry-run
cli_dry_run ==
    /\ pc \in {"main", "cli_dry_run", "menu_dry_run"}
    /\ dry_run_mode("cli_dry_run")
    /\ UNCHANGED <<roadmap_vars, pool_vars, monthly_calls, spend_calls, fix_logs_text, git_block, returned,
                   state, local_vars, ready, layers, hist_vars, events>>

\* main, pipeline.py lines 462-537: the 'dryrun' choice of the menu
menu_dry_run ==
    /\ pc \in {"main", "cli_dry_run", "menu_dry_run"}
    /\ run_checks
    /\ dry_run_mode("menu_dry_run")
    /\ UNCHANGED <<roadmap_vars, pool_vars, monthly_calls, spend_calls, fix_logs_text, git_block, returned,
                   state, local_vars, ready, layers, hist_vars, events>>

NextDry == cli_dry_run \/ menu_dry_run

\* any project directory without budget.json, with or without a run state file
InitDry ==
    /\ all_tasks = Ascending
    /\ depends_on = [t \in TaskIds |-> IF t = 1 THEN {} ELSE {t - 1}]
    /\ outputs = no_outputs
    /\ agent = [t \in TaskIds |-> "build"]
    /\ MAX_ATTEMPTS = 1
    /\ MAX_PARALLEL_AGENTS = 1
    /\ state \in {_raw_state_absent, mark_done(_raw_state_absent, 1)}
    /\ git_block \in {git_absent, [dict |-> TRUE, enabled |-> "True"]}
    /\ tree \in {tr \in SUBSET Files : well_formed(tr)}
    /\ review = no_review
    /\ InitLocals

SpecDry == InitDry /\ [][NextDry]_vars

\* ---- runner/pipeline.py: main in build mode ------------------------------

Init ==
    /\ all_tasks \in Orders
    /\ depends_on \in Graphs
    /\ outputs = no_outputs
    /\ run_checks
    /\ agent \in Agents
    /\ MAX_ATTEMPTS \in AttemptLimits
    /\ MAX_PARALLEL_AGENTS \in ParallelLimits
    /\ state = _raw_state_absent
    /\ git_block = git_absent
    /\ tree = {}
    /\ review = project_review
    /\ InitLocals

graph == parse_task_graph
first_task == all_tasks[1]

\* ---- what a pipeline call does, in order ---------------------------------

\* an event: what was done, the task (or the number) it was done with, and how
Ev(e, t, x) == [e |-> e, t |-> t, x |-> x]

log(es) == events' = events \o es

\* the events of kind e, in order
events_of(e) == LET Is(v) == v.e = e IN SelectSeq(events, Is)

\* check_monthly_budget: the month-to-date spend it may find
SpentLevels == {MONTHLY_LIMIT_TOKENS - 1, MONTHLY_LIMIT_TOKENS, MONTHLY_LIMIT_TOKENS + 1}

\* variant: spend equal to the limit passes
budget_exhausted_above(spent) == spent > MONTHLY_LIMIT_TOKENS

\* check_monthly_budget, line 297: spent_tokens >= MONTHLY_LIMIT_TOKENS
budget_exhausted(spent) == spent >= MONTHLY_LIMIT_TOKENS

_STATIC_FIX_MAX_ATTEMPTS == 2

\* variant: the static check loop goes round once more
StaticRunsOnceMore ==
    {r \in UNION {[1..n -> {"ok", "issues"}] : n \in 1..(_STATIC_FIX_MAX_ATTEMPTS + 1)} :
        /\ \A i \in 1..(Len(r) - 1) : r[i] = "issues"
        /\ r[Len(r)] = "ok" \/ Len(r) = _STATIC_FIX_MAX_ATTEMPTS + 1}

\* finalise_task, lines 187-199: the results of the static check runs of one
\* loop: it stops at the first run that is ok, or after the last allowed run
StaticRuns ==
    {r \in UNION {[1..n -> {"ok", "issues"}] : n \in 1.._STATIC_FIX_MAX_ATTEMPTS} :
        /\ \A i \in 1..(Len(r) - 1) : r[i] = "issues"
        /\ r[Len(r)] = "ok" \/ Len(r) = _STATIC_FIX_MAX_ATTEMPTS}

\* a static check run, and run_opencode_static_fix after a run with issues
RECURSIVE static_events(_, _, _)
static_events(r, t, i) ==
    IF i > Len(r) THEN <<>>
    ELSE <<Ev("static", 0, r[i])>>
         \o (IF r[i] = "issues" THEN <<Ev("agent", t, "static_fix")>> ELSE <<>>)
         \o static_events(r, t, i + 1)

\* _handle_task_failure, lines 121-179
failure_events(t) ==
    <<Ev("report", t, ""), Ev("rollback", t, ""), Ev("mark_task_failed", t, "")>>

\* process_task(t, resume_attempt, resume_fix_logs) is entered
enter_process_task(t, a, logs, who) ==
    /\ pc' = "process_task"
    /\ task' = t
    /\ resume_attempt' = a
    /\ attempt' = a
    /\ fix_logs' = logs
    /\ via' = who
    /\ calls' = 0
    /\ fails' = 0
    /\ events' = <<>>
    /\ UNCHANGED <<batch, idx, results, run_failed>>

\* a pipeline returns to main's loop: its locals are gone, and main's done_set
\* and ready are dead until the head of the loop assigns them again
return_to_loop ==
    /\ pc' = "loop"
    /\ task' = NoTask
    /\ resume_attempt' = 0
    /\ attempt' = 0
    /\ fix_logs' = NoLogs
    /\ batch' = <<>>
    /\ idx' = 0
    /\ results' = <<>>
    /\ done_set' = {}
    /\ ready' = <<>>
    /\ via' = "none"
    /\ calls' = 0
    /\ fails' = 0

\* the process ends at p: main returned, sys.exit(2), or an exception left main
end_process(p) ==
    /\ pc' = p
    /\ UNCHANGED <<local_vars, done_set, ready, via, calls, fails>>

\* main, lines 579-593: the resume check
main_resume ==
    /\ pc = "main"
    /\ LET saved == load_runner_state
       IN IF saved.current_task # NoTask /\ ~task_done(saved.current_task)
          THEN enter_process_task(saved.current_task, saved.attempt, saved.fix_logs, "resume")
          ELSE /\ pc' = "loop"
               /\ UNCHANGED <<local_vars, hist_vars, events>>
    /\ UNCHANGED <<roadmap_vars, pool_vars, budget_vars, call_vars, state, done_set, ready, layers>>

buildable_of(rdy) == LET NotMs(t) == ~is_milestone_task(t) IN SelectSeq(rdy, NotMs)

\* variant: the whole ready list is the batch
batch_of_all(buildable) == buildable

\* main, line 626: buildable[:MAX_PARALLEL_AGENTS]
batch_of(buildable) ==
    SubSeq(buildable, 1, IF Len(buildable) < MAX_PARALLEL_AGENTS
                         THEN Len(buildable) ELSE MAX_PARALLEL_AGENTS)

\* variant: a failed task counts as done
done_or_failed_tasks == {t \in Range(all_tasks) : task_done(t) \/ t \in _failed_tasks(state)}

\* main, line 597
done_tasks == {t \in Range(all_tasks) : task_done(t)}

\* main, lines 596-627: one iteration of the scheduling loop up to its dispatch
main_loop ==
    /\ pc = "loop"
    /\ done_set' = done_tasks
    /\ ready' = get_ready_tasks(all_tasks, graph, done_set')
    /\ LET buildable == buildable_of(ready')
       IN IF ready' = <<>>
          THEN /\ pc' = "done"
               /\ events' = <<>>
               /\ UNCHANGED <<local_vars, hist_vars>>
          ELSE IF is_milestone_task(ready'[1])
          THEN /\ pc' = "process_milestone"
               /\ task' = ready'[1]
               /\ via' = "loop"
               /\ events' = <<>>
               /\ UNCHANGED <<resume_attempt, attempt, fix_logs, batch, idx, results,
                              calls, fails, run_failed>>
          ELSE IF first_task \in Range(ready')
          THEN enter_process_task(first_task, 0, NoLogs, "loop")
          ELSE IF buildable = <<>>
          THEN /\ pc' = "done"
               /\ events' = <<>>
               /\ UNCHANGED <<local_vars, hist_vars>>
          ELSE IF Len(buildable) = 1 \/ MAX_PARALLEL_AGENTS <= 1
          THEN enter_process_task(buildable[1], 0, NoLogs, "loop")
          ELSE /\ pc' = "process_parallel_batch"
               /\ batch' = batch_of(buildable)
               /\ via' = "loop"
               /\ events' = <<>>
               /\ UNCHANGED <<task, resume_attempt, attempt, fix_logs, idx, results,
                              calls, fails, run_failed>>
    /\ UNCHANGED <<roadmap_vars, pool_vars, budget_vars, call_vars, state, layers>>

\* process_task, lines 276-282: budget check, feature branch
process_task_begin ==
    /\ pc = "process_task"
    /\ \E spent \in SpentLevels :
          IF budget_exhausted(spent)
          THEN /\ end_process("exit2")
               /\ log(<<Ev("budget", spent, "exit")>>)
          ELSE /\ pc' = "attempt_loop"
               /\ log(<<Ev("budget", spent, "ok"), Ev("branch", task, "")>>)
               /\ UNCHANGED <<local_vars, done_set, ready, via, calls, fails>>
    /\ UNCHANGED <<roadmap_vars, pool_vars, budget_vars, call_vars, state, layers, run_failed>>

\* process_task, lines 284-285: the head of the attempt loop, save_runner_state
save_attempt ==
    /\ pc = "attempt_loop"
    /\ IF attempt < MAX_ATTEMPTS
       THEN /\ state' = save_runner_state(state, task, attempt, fix_logs)
            /\ pc' = "run_attempt"
            /\ log(<<Ev("save", task, "")>>)
            /\ UNCHANGED <<local_vars, done_set, ready, via, calls, fails>>
       ELSE /\ return_to_loop
            /\ UNCHANGED <<state, events>>
    /\ UNCHANGED <<roadmap_vars, pool_vars, budget_vars, call_vars, layers, run_failed>>

\* variant: off by one
last_attempt_off(a) == a = MAX_ATTEMPTS

\* process_task, line 294
last_attempt(a) == a = MAX_ATTEMPTS - 1

\* run_attempt, line 70 and run_opencode_build: the agent a call goes to
agent_for(logs) == IF logs = NoLogs THEN "build" ELSE "fix"

\* variant: an exception of the agent call counts as a failed attempt
exception_retried(a) == IF last_attempt(a) THEN "task_failure" ELSE "attempt_loop"

\* process_task, lines 284-297, and main, lines 596-627: nothing catches an
\* exception of run_attempt, so it leaves the attempt loop and main's loop
exception_in_attempt(a) == "aborted"

\* process_task, lines 287-297, with run_attempt (lines 56-115): the build or
\* fix agent is invoked, then the tests and the coverage gate decide
run_attempt ==
    /\ pc = "run_attempt"
    /\ calls' = calls + 1
    /\ \E outcome \in {"raise", "pass", "fail"} :
          CASE outcome = "raise" ->
                 /\ pc' = exception_in_attempt(attempt)
                 /\ log(<<Ev("agent", task, agent_for(fix_logs)), Ev("raise", task, "")>>)
                 /\ UNCHANGED <<attempt, fix_logs, fails>>
            [] outcome = "pass" ->
                 /\ pc' = "finalise_task"
                 /\ fix_logs' = NoLogs
                 /\ log(<<Ev("agent", task, agent_for(fix_logs)), Ev("test", 0, "pass")>>)
                 /\ UNCHANGED <<attempt, fails>>
            [] outcome = "fail" ->
                 /\ fix_logs' \in LogLengths
                 /\ fails' = fails + 1
                 /\ log(<<Ev("agent", task, agent_for(fix_logs)), Ev("test", 0, "fail")>>)
                 /\ IF last_attempt(attempt)
                    THEN pc' = "task_failure" /\ UNCHANGED attempt
                    ELSE pc' = "attempt_loop" /\ attempt' = attempt + 1
    /\ UNCHANGED <<roadmap_vars, pool_vars, budget_vars, call_vars, state, task, resume_attempt, batch, idx, results, done_set,
                   ready, layers, via, run_failed>>

\* variant: the commit comes first
commit_phase_commit_first(t, staged) == <<Ev("commit", t, staged), Ev("mark_done", t, "")>>

\* finalise_task, lines 223-224, and process_parallel_batch, lines 451-452:
\* mark_done(task, project_dir), then commit_and_merge(task, project_dir, ...)
commit_phase(t, staged) == <<Ev("mark_done", t, ""), Ev("commit", t, staged)>>

\* variant: a rejected task goes on to the commit phase
rejected_returns_never(decision) == FALSE

\* finalise_task, lines 212-217: the reviewer's 'reject' returns before the
\* commit phase
rejected_returns(decision) == decision = "reject"

\* finalise_task, lines 201-219: how the document and review phases end: with
\* an exception of the document agent, with the decision show_diff_and_ask
\* returns when review is enabled for the task, or with the review skipped
Decisions(t) ==
    IF is_review_enabled(t) THEN {"raise", "reject", "approve"} ELSE {"raise", "skipped"}

\* finalise_task, lines 182-235: static checks, document, review, mark_done, commit
finalise_task ==
    /\ pc = "finalise_task"
    /\ \E r \in StaticRuns, decision \in Decisions(task) :
          LET done_so_far == static_events(r, task, 1) \o <<Ev("agent", task, "document")>>
              reviewed == IF decision \in {"reject", "approve"}
                          THEN <<Ev("review", task, decision)>> ELSE <<>>
          IN CASE decision = "raise" ->
                    /\ end_process("aborted")
                    /\ log(done_so_far \o <<Ev("raise", task, "")>>)
                    /\ UNCHANGED state
               [] decision # "raise" /\ rejected_returns(decision) ->
                    /\ return_to_loop
                    /\ log(done_so_far \o reviewed)
                    /\ UNCHANGED state
               [] OTHER ->
                    /\ state' = mark_done(state, task)
                    /\ log(done_so_far \o reviewed \o commit_phase(task, "all"))
                    /\ return_to_loop
    /\ UNCHANGED <<roadmap_vars, pool_vars, budget_vars, call_vars, layers, run_failed>>

\* _handle_task_failure, lines 121-179, called from process_task line 296
handle_task_failure ==
    /\ pc = "task_failure"
    /\ Len(state.failed) < MaxFailed
    /\ state' = mark_task_failed(state, task, MAX_ATTEMPTS)
    /\ run_failed' = run_failed \cup {task}
    /\ log(failure_events(task))
    /\ return_to_loop
    /\ UNCHANGED <<roadmap_vars, pool_vars, budget_vars, call_vars, layers>>

\* process_milestone, lines 303-328
process_milestone ==
    /\ pc = "process_milestone"
    /\ \E spent \in SpentLevels, raised \in BOOLEAN :
          IF budget_exhausted(spent)
          THEN /\ end_process("exit2")
               /\ log(<<Ev("budget", spent, "exit")>>)
               /\ UNCHANGED state
          ELSE IF raised
          THEN /\ end_process("aborted")
               /\ log(<<Ev("budget", spent, "ok"), Ev("agent", task, "milestone"),
                        Ev("raise", task, "")>>)
               /\ UNCHANGED state
          ELSE /\ state' = mark_done(state, task)
               /\ log(<<Ev("budget", spent, "ok"), Ev("agent", task, "milestone"),
                        Ev("tag", task, ""), Ev("mark_done", task, "")>>)
               /\ return_to_loop
    /\ UNCHANGED <<roadmap_vars, pool_vars, budget_vars, call_vars, layers, run_failed>>

\* process_parallel_batch, lines 344-366: budget check, then every build of the
\* batch is submitted to the pool (max_workers = len(batch))
batch_build ==
    /\ pc = "process_parallel_batch"
    /\ \E spent \in SpentLevels :
          IF budget_exhausted(spent)
          THEN /\ pc' = "exit2"
               /\ log(<<Ev("budget", spent, "exit")>>)
          ELSE /\ pc' = "batch_builds"
               /\ log(<<Ev("budget", spent, "ok")>>
                      \o [i \in 1..Len(batch) |-> Ev("agent", batch[i], "build")])
    /\ UNCHANGED <<roadmap_vars, pool_vars, budget_vars, call_vars, state, local_vars, done_set, ready, layers, hist_vars>>

\* the tasks whose build has finished
built == {results[i][1] : i \in 1..Len(results)}

\* process_parallel_batch, lines 368-376: as_completed yields one more build,
\* finished normally or with an exception, in whatever order they finish
build_done ==
    /\ pc = "batch_builds"
    /\ \E t \in Range(batch) \ built, exc \in BOOLEAN :
          /\ results' = Append(results, <<t, exc>>)
          /\ log(<<Ev("built", t, IF exc THEN "raise" ELSE "ok")>>)
    /\ UNCHANGED <<roadmap_vars, pool_vars, budget_vars, call_vars, state, pc, task, resume_attempt, attempt, fix_logs, batch,
                   idx, done_set, ready, layers, hist_vars>>

\* variant: the exception of a build is raised as soon as it is collected
all_collected_or_raised == Len(results) = Len(batch) \/ \E i \in 1..Len(results) : results[i][2]

\* process_parallel_batch, line 372: the for loop over as_completed ends when
\* every future has been yielded
all_collected == Len(results) = Len(batch)

\* process_parallel_batch, lines 377-389: the reports, the re-raise of the first
\* exception of results, and the dependency sync
batch_join ==
    /\ pc = "batch_builds"
    /\ all_collected
    /\ IF \E i \in 1..Len(results) : results[i][2]
       THEN LET first == CHOOSE i \in 1..Len(results) :
                             /\ results[i][2]
                             /\ \A j \in 1..(i - 1) : ~results[j][2]
            IN /\ pc' = "aborted"
               /\ log(<<Ev("raise", results[first][1], "")>>)
       ELSE /\ pc' = "batch_test"
            /\ log(<<Ev("sync", 0, "")>>)
    /\ UNCHANGED <<roadmap_vars, pool_vars, budget_vars, call_vars, state, local_vars, done_set, ready, layers, hist_vars>>

\* variant: one more pass than the loop makes
fix_left_more(a) == a < MAX_ATTEMPTS

\* process_parallel_batch, line 398: range(1, MAX_ATTEMPTS) has a pass left
\* after the pass with index a (a = 0 is the first test run)
fix_left(a) == a + 1 < MAX_ATTEMPTS

\* process_parallel_batch, lines 393-398 and 413-421: a test run of the batch
batch_test ==
    /\ pc = "batch_test"
    /\ \E passed \in BOOLEAN :
          IF passed
          THEN /\ pc' = "batch_finalise"
               /\ log(<<Ev("test", 0, "pass")>>)
               /\ UNCHANGED <<attempt, fix_logs, idx>>
          ELSE /\ fix_logs' \in LogLengths
               /\ log(<<Ev("test", 0, "fail")>>)
               /\ IF fix_left(attempt)
                  THEN pc' = "batch_fix" /\ attempt' = attempt + 1 /\ UNCHANGED idx
                  ELSE pc' = "batch_failure" /\ idx' = 1 /\ UNCHANGED attempt
    /\ UNCHANGED <<roadmap_vars, pool_vars, budget_vars, call_vars, state, task, resume_attempt, batch, results, done_set, ready,
                   layers, hist_vars>>

\* process_parallel_batch, lines 402-410: one pass of the shared fix loop
batch_fix ==
    /\ pc = "batch_fix"
    /\ state' = save_runner_state(state, batch[1], attempt, fix_logs)
    /\ \E raised \in BOOLEAN :
          IF raised
          THEN /\ pc' = "aborted"
               /\ log(<<Ev("save", batch[1], ""), Ev("agent", batch[1], "fix"),
                        Ev("raise", batch[1], "")>>)
          ELSE /\ pc' = "batch_test"
               /\ log(<<Ev("save", batch[1], ""), Ev("agent", batch[1], "fix"),
                        Ev("sync", 0, "")>>)
    /\ UNCHANGED <<roadmap_vars, pool_vars, budget_vars, call_vars, local_vars, done_set, ready, layers, hist_vars>>

\* process_parallel_batch, lines 419-421: _handle_task_failure for one task
batch_failure ==
    /\ pc = "batch_failure"
    /\ Len(state.failed) + (Len(batch) - idx) < MaxFailed
    /\ state' = mark_task_failed(state, batch[idx], MAX_ATTEMPTS)
    /\ run_failed' = run_failed \cup {batch[idx]}
    /\ log(failure_events(batch[idx]))
    /\ IF idx = Len(batch)
       THEN return_to_loop
       ELSE /\ idx' = idx + 1
            /\ UNCHANGED <<pc, task, resume_attempt, attempt, fix_logs, batch, results,
                           done_set, ready, via, calls, fails>>
    /\ UNCHANGED <<roadmap_vars, pool_vars, budget_vars, call_vars, layers>>

\* variant: the document agent is invoked for every task of the batch
document_events_each(b) == [i \in 1..Len(b) |-> Ev("agent", b[i], "document")]

\* process_parallel_batch, line 441: run_opencode_document(batch[0], ...)
document_events(b) == <<Ev("agent", b[1], "document")>>

\* process_parallel_batch, lines 424-441: static checks and document, once
batch_finalise ==
    /\ pc = "batch_finalise"
    /\ \E r \in StaticRuns, raised \in BOOLEAN :
          IF raised
          THEN /\ pc' = "aborted"
               /\ log(static_events(r, batch[1], 1) \o document_events(batch)
                      \o <<Ev("raise", batch[1], "")>>)
               /\ UNCHANGED idx
          ELSE /\ pc' = "batch_commit"
               /\ log(static_events(r, batch[1], 1) \o document_events(batch))
               /\ idx' = 1
    /\ UNCHANGED <<roadmap_vars, pool_vars, budget_vars, call_vars, state, task, resume_attempt, attempt, fix_logs, batch,
                   results, done_set, ready, layers, hist_vars>>

\* variant: every task of the batch stages its own outputs
selective_always(has_outputs, is_last) == IF has_outputs THEN "outputs" ELSE "all"

\* process_parallel_batch, line 449, and commit_and_merge, lines 497-503: what
\* the commit of a task stages
selective(has_outputs, is_last) == IF has_outputs /\ ~is_last THEN "outputs" ELSE "all"

\* what there is to stage: the run state file, the files of the task's outputs
\* list, and whatever else is in the working tree
WorkingTree == {"state", "outputs", "rest"}

\* commit_and_merge, lines 489-503: what the call adds to the index
commit_and_merge(managed, has_state, task_outputs) ==
    IF ~managed THEN {}
    ELSE (IF has_state THEN {"state"} ELSE {})
         \cup (IF task_outputs = "outputs" THEN {"outputs"} ELSE WorkingTree)

\* process_parallel_batch, lines 443-454: mark_done and commit of one task
batch_commit ==
    /\ pc = "batch_commit"
    /\ state' = mark_done(state, batch[idx])
    /\ \E has_outputs \in BOOLEAN :
          log(<<Ev("branch", batch[idx], ""),
                Ev("outputs", batch[idx], IF has_outputs THEN "listed" ELSE "empty")>>
              \o commit_phase(batch[idx], selective(has_outputs, idx = Len(batch))))
    /\ IF idx = Len(batch)
       THEN return_to_loop
       ELSE /\ idx' = idx + 1
            /\ UNCHANGED <<pc, task, resume_attempt, attempt, fix_logs, batch, results,
                           done_set, ready, via, calls, fails>>
    /\ UNCHANGED <<roadmap_vars, pool_vars, budget_vars, call_vars, layers, run_failed>>

\* a process that recorded no failure has ended (main returned, the budget
\* exit, or a crash) and agentik is started again on the project
restart ==
    /\ pc \in {"done", "exit2", "aborted"}
    /\ run_failed = {}
    /\ pc' = "main"
    /\ task' = NoTask
    /\ resume_attempt' = 0
    /\ attempt' = 0
    /\ fix_logs' = NoLogs
    /\ batch' = <<>>
    /\ idx' = 0
    /\ results' = <<>>
    /\ done_set' = {}
    /\ ready' = <<>>
    /\ via' = "none"
    /\ calls' = 0
    /\ fails' = 0
    /\ run_failed' = {}
    /\ events' = <<>>
    /\ UNCHANGED <<roadmap_vars, pool_vars, budget_vars, call_vars, state, layers>>

Next ==
    \/ main_resume
    \/ main_loop
    \/ process_task_begin
    \/ save_attempt
    \/ run_attempt
    \/ finalise_task
    \/ handle_task_failure
    \/ process_milestone
    \/ batch_build
    \/ build_done
    \/ batch_join
    \/ batch_test
    \/ batch_fix
    \/ batch_failure
    \/ batch_finalise
    \/ batch_commit
    \/ restart

Spec == Init /\ [][Next]_vars

\* ---- main on a roadmap whose tasks all depend on the first one ------------

\* one task more than the roadmaps of Init have, so that the tasks ready after
\* the first one can outnumber MAX_PARALLEL_AGENTS
WideTasks == NumTasks + 1
WideIds == 1..WideTasks

\* "depends_on": ["001"] in every task but the first, which passes run_checks
Fan == [t \in WideIds |-> IF t = 1 THEN {} ELSE {1}]

WideOrders == {[i \in WideIds |-> i], [i \in WideIds |-> WideTasks + 1 - i]}

\* budget.json: max_parallel_agents, up to the most tasks that can be ready
WideParallel == {1, 2, WideTasks - 1}

InitWide ==
    /\ all_tasks \in WideOrders
    /\ depends_on = Fan
    /\ outputs = [t \in WideIds |-> {}]
    /\ agent \in [WideIds -> {"build", "milestone"}]
    /\ MAX_ATTEMPTS \in AttemptLimits
    /\ MAX_PARALLEL_AGENTS \in WideParallel
    /\ state = _raw_state_absent
    /\ git_block = git_absent
    /\ tree = {}
    /\ review = [project |-> "True", tasks |-> [t \in WideIds |-> "absent"]]
    /\ InitLocals

SpecWide == InitWide /\ [][Next]_vars

\* ---- main on roadmaps with any review flags --------------------------------

\* the values of a "review" key: absent, true, false
ReviewFlags == {"absent", "True", "False"}

\* all tasks build, or the last one is a milestone
ReviewAgents ==
    {[t \in TaskIds |-> "build"],
     [t \in TaskIds |-> IF t = NumTasks THEN "milestone" ELSE "build"]}

\* every task but the first depends on the first, so that two can be ready
InitReview ==
    /\ all_tasks = Ascending
    /\ depends_on = [t \in TaskIds |-> IF t = 1 THEN {} ELSE {1}]
    /\ outputs = no_outputs
    /\ run_checks
    /\ agent \in ReviewAgents
    /\ MAX_ATTEMPTS \in AttemptLimits
    /\ MAX_PARALLEL_AGENTS \in ParallelLimits
    /\ state = _raw_state_absent
    /\ git_block = git_absent
    /\ tree = {}
    /\ review \in [project : ReviewFlags \ {"False"}, tasks : [TaskIds -> ReviewFlags]]
    /\ InitLocals

SpecReview == InitReview /\ [][Next]_vars

\* ---- main on the roadmaps of four tasks that pass run_checks ---------------

\* the paths an outputs list can name
OutputPaths == {"pkg/a.py"}

LintGraphs == {d \in [WideIds -> SUBSET WideIds] : edges(d, WideTasks) <= MaxEdges + 1}

\* all tasks build, or the last one is a milestone
LintAgents ==
    {[t \in WideIds |-> "build"],
     [t \in WideIds |-> IF t = WideTasks THEN "milestone" ELSE "build"]}

InitLint ==
    /\ all_tasks = [i \in WideIds |-> i]
    /\ depends_on \in LintGraphs
    /\ outputs \in [WideIds -> SUBSET OutputPaths]
    /\ run_checks
    /\ agent \in LintAgents
    /\ MAX_ATTEMPTS = 2
    /\ MAX_PARALLEL_AGENTS = 2
    /\ state = _raw_state_absent
    /\ git_block = git_absent
    /\ tree = {}
    /\ review = [project |-> "absent", tasks |-> [t \in WideIds |-> "absent"]]
    /\ InitLocals

SpecLint == InitLint /\ [][Next]_vars

\* ---- the worker threads of a parallel batch build ------------------------

MaxTokens == 2         \* tokens one agent run consumes at most

\* get_token_stats, lines 27-57: the total that opencode stats reports now
get_token_stats == usage

\* a thread the executor has just given _build_one to
submitted ==
    [pc |-> "_build_one", before |-> 0, delta |-> 0, data |-> _budget_absent, month |-> 0]

\* an empty file: write_text has opened it and has written nothing yet
budget_cut == [exists |-> TRUE, total_tokens |-> 0, total_calls |-> 0, sessions |-> <<>>]

\* what the worker threads leave alone
main_vars == <<roadmap_vars, state, pc, local_vars, done_set, ready, layers, hist_vars,
               events, call_vars>>

\* _invoke_opencode, line 371: the snapshot before the run
stats_before ==
    \E i \in DOMAIN workers :
        /\ workers[i].pc = "_build_one"
        /\ workers' = [workers EXCEPT ![i].pc = "_run_with_log",
                                      ![i].before = get_token_stats]
        /\ UNCHANGED <<main_vars, budget_vars, file_text, usage>>

\* _invoke_opencode, lines 385-421: the agent runs and consumes tokens
_run_with_log ==
    \E i \in DOMAIN workers, consumed \in 0..MaxTokens :
        /\ workers[i].pc = "_run_with_log"
        /\ usage' = usage + consumed
        /\ workers' = [workers EXCEPT ![i].pc = "stats_after"]
        /\ UNCHANGED <<main_vars, budget_vars, file_text>>

\* _invoke_opencode, lines 424-425: the snapshot after the run and the delta
stats_after ==
    \E i \in DOMAIN workers :
        /\ workers[i].pc = "stats_after"
        /\ workers' = [workers EXCEPT
                           ![i].pc = "record_project_spend",
                           ![i].delta = tokens_counted(get_token_stats - workers[i].before)]
        /\ UNCHANGED <<main_vars, budget_vars, file_text, usage>>

\* record_project_spend, line 199: load_project_budget reads budget.json;
\* json.loads raises on the text of a file that is being written
spend_load ==
    \E i \in DOMAIN workers :
        /\ workers[i].pc = "record_project_spend"
        /\ spend_calls' = Append(spend_calls, [task |-> batch[i], phase |-> "build",
                                               delta |-> workers[i].delta])
        /\ workers' = IF file_text.budget = "cut"
                      THEN [workers EXCEPT ![i].pc = "raised"]
                      ELSE [workers EXCEPT ![i].pc = "save_project_budget",
                                           ![i].data = budget]
        /\ UNCHANGED <<main_vars, budget, monthly_calls, file_text, usage>>

\* save_project_budget, lines 165-169: write_text opens budget.json, which
\* cuts it to nothing
spend_truncate ==
    \E i \in DOMAIN workers :
        /\ workers[i].pc = "save_project_budget"
        /\ budget' = budget_cut
        /\ file_text' = [file_text EXCEPT !.budget = "cut"]
        /\ workers' = [workers EXCEPT ![i].pc = "write_text"]
        /\ UNCHANGED <<main_vars, monthly_calls, spend_calls, usage>>

\* save_project_budget, lines 165-169: write_text writes the data the thread
\* has loaded, with its own call and session added (lines 200-214)
spend_write ==
    \E i \in DOMAIN workers :
        /\ workers[i].pc = "write_text"
        /\ budget' = record_project_spend(workers[i].data, batch[i], "build",
                                          workers[i].delta, 0, batch)
        /\ file_text' = [file_text EXCEPT !.budget = "json"]
        /\ workers' = [workers EXCEPT ![i].pc = "_increment_monthly_calls"]
        /\ UNCHANGED <<main_vars, monthly_calls, spend_calls, usage>>

\* _increment_monthly_calls, line 119: _load_budget_state reads the file
monthly_load ==
    \E i \in DOMAIN workers :
        /\ workers[i].pc = "_increment_monthly_calls"
        /\ workers' = IF file_text.monthly = "cut"
                      THEN [workers EXCEPT ![i].pc = "raised"]
                      ELSE [workers EXCEPT ![i].pc = "_save_budget_state",
                                           ![i].month = monthly_calls]
        /\ UNCHANGED <<main_vars, budget_vars, file_text, usage>>

\* _save_budget_state, lines 106-108: write_text opens the file
monthly_truncate ==
    \E i \in DOMAIN workers :
        /\ workers[i].pc = "_save_budget_state"
        /\ monthly_calls' = 0
        /\ file_text' = [file_text EXCEPT !.monthly = "cut"]
        /\ workers' = [workers EXCEPT ![i].pc = "write_monthly"]
        /\ UNCHANGED <<main_vars, budget, spend_calls, usage>>

\* _save_budget_state, lines 106-108: write_text writes the counter
monthly_write ==
    \E i \in DOMAIN workers, new_month \in BOOLEAN :
        /\ workers[i].pc = "write_monthly"
        /\ monthly_calls' = _increment_monthly_calls(workers[i].month, new_month)
        /\ file_text' = [file_text EXCEPT !.monthly = "json"]
        /\ workers' = [workers EXCEPT ![i].pc = "_check_model_error"]
        /\ UNCHANGED <<main_vars, budget, spend_calls, usage>>

\* _invoke_opencode, lines 436-472: the rest of the call returns the delta,
\* or _check_model_error raises for a model error in the log
_check_model_error ==
    \E i \in DOMAIN workers, exc \in BOOLEAN :
        /\ workers[i].pc = "_check_model_error"
        /\ workers' = [workers EXCEPT ![i].pc = IF exc THEN "raised" ELSE "returned"]
        /\ UNCHANGED <<main_vars, budget_vars, file_text, usage>>

NextPool ==
    \/ stats_before
    \/ _run_with_log
    \/ stats_after
    \/ spend_load
    \/ spend_truncate
    \/ spend_write
    \/ monthly_load
    \/ monthly_truncate
    \/ monthly_write
    \/ _check_model_error

\* the budget and the counter after the build of task 001, which took one token
budget_before_batch == record_project_spend(_budget_absent, 1, "build", 1, 0, <<>>)
usage_before_batch == 1

\* task 001 is done, 002 and 003 depend on it alone and form the batch that
\* process_parallel_batch has just handed to the executor
InitPool ==
    /\ all_tasks = Ascending
    /\ depends_on = [t \in TaskIds |-> IF t = 1 THEN {} ELSE {1}]
    /\ outputs = no_outputs
    /\ agent = [t \in TaskIds |-> "build"]
    /\ MAX_ATTEMPTS \in AttemptLimits
    /\ MAX_PARALLEL_AGENTS = 2
    /\ state = mark_done(_raw_state_absent, 1)
    /\ git_block = git_absent
    /\ tree = {}
    /\ review = no_review
    /\ pc = "process_parallel_batch"
    /\ task = NoTask
    /\ resume_attempt = 0
    /\ attempt = 0
    /\ fix_logs = NoLogs
    /\ batch = <<2, 3>>
    /\ idx = 0
    /\ results = <<>>
    /\ done_set = {1}
    /\ ready = <<2, 3>>
    /\ layers = <<>>
    /\ via = "loop"
    /\ calls = 0
    /\ fails = 0
    /\ run_failed = {}
    /\ events = <<>>
    /\ budget = budget_before_batch
    /\ monthly_calls \in {0, 1}
    /\ spend_calls = <<>>
    /\ fix_logs_text = NoText
    /\ git_commands = <<>>
    /\ returned = "none"
    /\ file_text = whole_files
    /\ usage = usage_before_batch
    /\ workers = [i \in DOMAIN batch |-> submitted]

SpecPool == InitPool /\ [][NextPool]_vars

\* ---- the run state and budget files as text, with crashes ----------------

\* the texts .runner_state.json is read with: the text _write_state wrote,
\* a proper prefix of it, a text that is not JSON, bytes that are not UTF-8,
\* and a JSON value that is not an object
StateTexts == {"json", "cut", "not_json", "not_utf8", "array"}

\* _raw_state, lines 229-252: what it raises on a text. read_text raises for
\* bytes that are not UTF-8 (line 235), json.loads raises JSONDecodeError for
\* a text that is not JSON, which is caught (line 236), and data.get raises
\* for a JSON value that is not an object (line 239)
_raw_state_raises(text) ==
    CASE text = "not_utf8" -> "UnicodeDecodeError"
      [] text = "array" -> "AttributeError"
      [] OTHER -> "none"

\* _raw_state, lines 229-252: the dict it returns on a text it does not
\* raise on
_raw_state(text, st) == IF text = "json" THEN st ELSE _raw_state_absent

\* where the next call is made from
at_main == pc \in {"main", "load_runner_state", "task_done"}

\* a call that reads .runner_state.json is made: the text it reads
reads(name, t) == events' = <<Ev(name, t, file_text.state)>>

\* a call that writes .runner_state.json, up to the point where write_text
\* has opened the file: it raises what _raw_state raises, or the file is
\* cut and the dict is on its way
opens(name, t, st) ==
    /\ reads(name, t)
    /\ returned' = _raw_state_raises(file_text.state)
    /\ IF _raw_state_raises(file_text.state) # "none"
       THEN /\ pc' = "raised"
            /\ UNCHANGED <<state, file_text>>
       ELSE /\ pc' = name
            /\ state' = st
            /\ file_text' = [file_text EXCEPT !.state = "cut"]

\* load_runner_state(project_dir) is called
load_read ==
    /\ at_main
    /\ reads("load_runner_state", NoTask)
    /\ returned' = _raw_state_raises(file_text.state)
    /\ pc' = IF _raw_state_raises(file_text.state) # "none" THEN "raised"
             ELSE "load_runner_state"
    /\ UNCHANGED <<roadmap_vars, state, local_vars, done_set, ready, layers, hist_vars,
                   budget_vars, fix_logs_text, git_block, git_commands, tree, pool_vars>>

\* task_done(t, project_dir) is called
task_done_read ==
    /\ at_main
    /\ \E t \in StateTasks : reads("task_done", t)
    /\ returned' = _raw_state_raises(file_text.state)
    /\ pc' = IF _raw_state_raises(file_text.state) # "none" THEN "raised" ELSE "task_done"
    /\ UNCHANGED <<roadmap_vars, state, local_vars, done_set, ready, layers, hist_vars,
                   budget_vars, fix_logs_text, git_block, git_commands, tree, pool_vars>>

\* save_runner_state(project_dir, t, a, None) up to the open of write_text
save_open ==
    /\ at_main
    /\ \E t \in StateTasks, a \in AttemptArgs :
          opens("save_runner_state", t,
                save_runner_state(_raw_state(file_text.state, state), t, a, NoLogs))
    /\ UNCHANGED <<roadmap_vars, local_vars, done_set, ready, layers, hist_vars,
                   budget_vars, fix_logs_text, git_block, git_commands, tree, usage,
                   workers>>

\* mark_done(t, project_dir) up to the open of write_text
mark_done_open ==
    /\ at_main
    /\ state.task_started_at => state.task_durations < MaxDurations
    /\ \E t \in StateTasks :
          opens("mark_done", t, mark_done(_raw_state(file_text.state, state), t))
    /\ UNCHANGED <<roadmap_vars, local_vars, done_set, ready, layers, hist_vars,
                   budget_vars, fix_logs_text, git_block, git_commands, tree, usage,
                   workers>>

\* _write_state, lines 255-259: write_text writes the text and returns, and
\* so does the function that called it
_write_state ==
    /\ pc \in {"save_runner_state", "mark_done"}
    /\ file_text' = [file_text EXCEPT !.state = "json"]
    /\ done_set' = IF pc = "mark_done" THEN done_set \cup {events[1].t} ELSE done_set
    /\ pc' = "main"
    /\ UNCHANGED <<roadmap_vars, state, local_vars, ready, layers, hist_vars, events,
                   budget_vars, call_vars, usage, workers>>

\* record_project_spend, lines 199-215, up to the open of write_text:
\* load_project_budget raises on a text that is not JSON (line 153)
record_open ==
    /\ at_main
    /\ Len(spend_calls) < MaxCalls
    /\ spend_calls' = Append(spend_calls, [task |-> 1, phase |-> "build", delta |-> 1])
    /\ events' = <<Ev("record_project_spend", 1, file_text.budget)>>
    /\ IF file_text.budget = "cut"
       THEN /\ pc' = "raised"
            /\ returned' = "JSONDecodeError"
            /\ UNCHANGED <<budget, file_text>>
       ELSE /\ pc' = "record_project_spend"
            /\ returned' = "none"
            /\ budget' = record_project_spend(budget, 1, "build", 1, 0, <<>>)
            /\ file_text' = [file_text EXCEPT !.budget = "cut"]
    /\ UNCHANGED <<roadmap_vars, state, local_vars, done_set, ready, layers, hist_vars,
                   monthly_calls, fix_logs_text, git_block, git_commands, tree, usage,
                   workers>>

\* save_project_budget, lines 165-169: write_text writes the text and
\* returns; _increment_monthly_calls, line 217
record_close ==
    /\ pc = "record_project_spend"
    /\ file_text' = [file_text EXCEPT !.budget = "json"]
    /\ \E new_month \in BOOLEAN :
          monthly_calls' = _increment_monthly_calls(monthly_calls, new_month)
    /\ pc' = "main"
    /\ UNCHANGED <<roadmap_vars, state, local_vars, done_set, ready, layers, hist_vars,
                   events, budget, spend_calls, call_vars, usage, workers>>

\* the process is killed: the files stay as they are
crash ==
    /\ pc \notin {"crashed", "raised"}
    /\ pc' = "crashed"
    /\ UNCHANGED <<roadmap_vars, state, local_vars, done_set, ready, layers, hist_vars,
                   events, budget_vars, call_vars, pool_vars>>

\* the runner is started again after a crash or a traceback
started_again ==
    /\ pc \in {"crashed", "raised"}
    /\ pc' = "main"
    /\ UNCHANGED <<roadmap_vars, state, local_vars, done_set, ready, layers, hist_vars,
                   events, budget_vars, call_vars, pool_vars>>

NextFile ==
    \/ load_read
    \/ task_done_read
    \/ save_open
    \/ mark_done_open
    \/ _write_state
    \/ record_open
    \/ record_close
    \/ crash
    \/ started_again

\* a project without budget.json whose .runner_state.json is absent or has
\* been left with a text of any kind
InitFile ==
    /\ all_tasks = Ascending
    /\ depends_on = [t \in TaskIds |-> IF t = 1 THEN {} ELSE {t - 1}]
    /\ outputs = no_outputs
    /\ agent = [t \in TaskIds |-> "build"]
    /\ MAX_ATTEMPTS = 2
    /\ MAX_PARALLEL_AGENTS = 1
    /\ state = _raw_state_absent
    /\ git_block = git_absent
    /\ tree = {}
    /\ review = no_review
    /\ pc = "main"
    /\ task = NoTask
    /\ resume_attempt = 0
    /\ attempt = 0
    /\ fix_logs = NoLogs
    /\ batch = <<>>
    /\ idx = 0
    /\ results = <<>>
    /\ done_set = {}
    /\ ready = <<>>
    /\ layers = <<>>
    /\ via = "none"
    /\ calls = 0
    /\ fails = 0
    /\ run_failed = {}
    /\ events = <<>>
    /\ budget = _budget_absent
    /\ monthly_calls = 0
    /\ spend_calls = <<>>
    /\ fix_logs_text = NoText
    /\ git_commands = <<>>
    /\ returned = "none"
    /\ file_text \in [state : StateTexts \ {"cut"}, budget : {"json"}, monthly : {"json"}]
    /\ usage = 0
    /\ workers = <<>>

SpecFile == InitFile /\ [][NextFile]_vars

\* ---- properties of the scheduler (Spec) -----------------------------------

completed_now == _completed_tasks(state)

\* main has just called a pipeline from its loop, on these tasks
AtDispatch ==
    /\ via = "loop"
    /\ pc \in {"process_task", "process_milestone", "process_parallel_batch"}

Dispatched == IF pc = "process_parallel_batch" THEN Range(batch) ELSE {task}

\* C1: every task main's loop dispatches, alone, as a milestone or in a batch,
\* has all the dependencies the graph gives it in the completed list
C1_DepsCompletedAtDispatch ==
    AtDispatch => \A t \in Dispatched : graph[t] \subseteq completed_now

C1_Witness ==
    /\ AtDispatch
    /\ \E t \in Dispatched : Cardinality(graph[t]) = 2

\* C2: the loop does not retry a task that used up its attempts: a task this
\* process recorded failed is not dispatched again by this process
C2_FailedNotRedispatched ==
    AtDispatch => Dispatched \cap run_failed = {}

\* C3: process_task entered at attempt 0 invokes the build or fix agent at most
\* MAX_ATTEMPTS times; it reaches the failure handler exactly when MAX_ATTEMPTS
\* cycles have failed, and goes to finalise_task on the first cycle that passes
C3_AttemptsBounded ==
    resume_attempt = 0 =>
        /\ calls <= MAX_ATTEMPTS
        /\ fails <= calls
        /\ (pc = "task_failure") <=> (fails = MAX_ATTEMPTS)
        /\ pc = "finalise_task" => calls = fails + 1
        /\ calls > fails => pc \in {"finalise_task", "aborted"}

C3_Witness ==
    /\ pc = "task_failure"
    /\ via = "loop"
    /\ resume_attempt = 0
    /\ calls = 2

\* C4: a task recorded failed does not block the scheduler: the loop never
\* spends an iteration on tasks it has already recorded failed while another
\* task, not completed, has all its dependencies completed and is left waiting
C4_FailedDoesNotBlock ==
    (AtDispatch /\ Dispatched \subseteq run_failed) =>
        \A u \in TaskIds \ Dispatched :
            u \in completed_now \/ ~(graph[u] \subseteq completed_now)

\* C5: no task is at once in more than one of current_task, completed, failed
C5_OneRecordPerTask ==
    \A t \in TaskIds :
        /\ ~(state.current_task = t /\ t \in completed_now)
        /\ ~(state.current_task = t /\ t \in _failed_tasks(state))
        /\ ~(t \in completed_now /\ t \in _failed_tasks(state))

\* C11: whenever the build or fix agent call of an attempt of the single-task
\* pipeline runs, the run state already names the task, the attempt's index and
\* the (truncated) logs of the preceding failure, None on attempt 0 of a fresh
\* start; a crash during the call leaves that run state as it is
C11_SavedBeforeAgentCall ==
    [][pc = "run_attempt" =>
          /\ state.current_task = task
          /\ state.attempt = attempt
          /\ state.fix_logs = truncated(fix_logs)
          /\ via = "loop" => (attempt = fails /\ (fix_logs = NoLogs <=> attempt = 0))
          /\ pc' = "aborted" => state' = state]_vars

C11_Witness ==
    /\ pc = "aborted"
    /\ calls = 2
    /\ fix_logs = FixLogsLimit + 1
    /\ state.current_task = task
    /\ state.attempt = 1
    /\ state.fix_logs = FixLogsLimit

\* C12 as the specification states it: the first agent call of a resumed task
\* is a fix call, never the call of attempt 0
C12_ResumeIsFixCall ==
    (via = "resume" /\ pc = "run_attempt" /\ calls = 0) =>
        (attempt >= 1 /\ fix_logs # NoLogs)

\* C12, as the code has it: when the run state at start-up holds a task that is
\* not completed, main enters process_task for that task alone, with the saved
\* attempt index and fix logs, without computing a ready set; the first agent
\* call of the run is for that index with those logs, a fix call when logs
\* were saved and the build call of attempt 0 when none were
C12_ResumeFromSaved ==
    [][/\ (pc = "main" /\ state.current_task # NoTask /\ ~task_done(state.current_task)) =>
            /\ pc' = "process_task"
            /\ task' = state.current_task
            /\ attempt' = state.attempt
            /\ fix_logs' = state.fix_logs
            /\ batch' = <<>>
            /\ ready' = <<>>
       /\ (via = "resume" /\ pc = "run_attempt" /\ calls = 0) =>
            /\ task = state.current_task
            /\ attempt = resume_attempt
            /\ attempt = state.attempt
            /\ fix_logs = state.fix_logs
            /\ ready = <<>>
            /\ (fix_logs = NoLogs) <=> (attempt = 0)]_vars

C12_Witness ==
    /\ via = "resume"
    /\ pc = "run_attempt"
    /\ calls = 0
    /\ attempt = 1
    /\ fix_logs = FixLogsLimit

\* C13: when an agent invocation raises (ModelConfigError is not caught
\* anywhere), the raising step adds the task to neither completed nor failed and
\* ends the process; nothing is invoked, marked or started after it in this
\* run: the only step left is a new run of agentik
raised_now == Len(events) > 0 /\ events[Len(events)].e = "raise"

C13_ModelErrorStopsRun ==
    /\ [](\A i \in 1..Len(events) :
             events[i].e = "raise" => (i = Len(events) /\ pc = "aborted"))
    /\ [](pc = "aborted" => raised_now)
    /\ [][/\ (~raised_now /\ raised_now') =>
               /\ pc' = "aborted"
               /\ state'.completed = state.completed
               /\ state'.failed = state.failed
          /\ pc = "aborted" => (pc' = "main" /\ state' = state /\ events' = <<>>)]_vars

C13_Witness ==
    /\ pc = "aborted"
    /\ via = "loop"
    /\ MAX_ATTEMPTS = 2
    /\ calls = 1
    /\ events[Len(events)] = Ev("raise", task, "")
    /\ events[Len(events) - 1] = Ev("agent", task, "build")
    /\ task \notin completed_now
    /\ task \notin _failed_tasks(state)

\* the task of each event of a sequence of events
tasks_of(es) == [i \in 1..Len(es) |-> es[i].t]

\* the call main made last was process_parallel_batch and has submitted its
\* builds (only that call goes from the budget check straight to a build), on
\* these tasks in order
batch_call == Len(events) >= 2 /\ events[2].e = "agent" /\ events[2].x = "build"
batch_called ==
    LET IsBuild(v) == v.e = "agent" /\ v.x = "build" IN tasks_of(SelectSeq(events, IsBuild))

after_builds(v) ==
    \/ v.e \in {"raise", "sync", "test", "save", "static", "branch", "outputs", "mark_done",
                "commit", "report", "rollback", "mark_task_failed"}
    \/ v.e = "agent" /\ v.x # "build"

\* C15: in a batch no sync, test, fix, static check, document call or commit
\* happens before every build of the batch has finished; the exception of a
\* build is re-raised only when all builds have finished, and then no later
\* phase runs and no batch task is marked done or completed
C15_BuildBarrier ==
    batch_call =>
        LET builts == events_of("built")
            later == SelectSeq(events, after_builds)
        IN /\ later # <<>> =>
                 /\ {builts[i].t : i \in 1..Len(builts)} = Range(batch_called)
                 /\ Len(builts) = Len(batch_called)
                 /\ \A i, j \in 1..Len(events) :
                        (events[i].e = "built" /\ after_builds(events[j])) => i < j
           /\ (\E i \in 1..Len(builts) : builts[i].x = "raise") =>
                 /\ pc \in {"batch_builds", "aborted"}
                 /\ pc = "aborted" <=> later # <<>>
                 /\ Len(later) <= 1
                 /\ later # <<>> => later[1].e = "raise"
                 /\ Range(batch_called) \cap completed_now = {}
           /\ (\A i \in 1..Len(builts) : builts[i].x = "ok") =>
                 (pc = "batch_builds" <=> later = <<>>)

C15_Witness ==
    /\ batch_call
    /\ pc = "aborted"
    /\ Len(events_of("built")) = 2
    /\ events_of("built")[1].x = "raise"
    /\ events_of("built")[2].x = "ok"
    /\ events[Len(events)].e = "raise"

\* the invocations of the document agent in the call
documents == LET IsDoc(v) == v.e = "agent" /\ v.x = "document" IN SelectSeq(events, IsDoc)

\* the batch call has reached its commit phase
committing == pc = "batch_commit" \/ (pc = "loop" /\ events_of("commit") # <<>>)

\* C16: in a batch of any size the test runs number at most MAX_ATTEMPTS, the
\* static check runs at most _STATIC_FIX_MAX_ATTEMPTS and the document agent is
\* invoked at most once; a batch that reaches the commit phase has made
\* exactly one document call, for the first task of the batch, at least one
\* static check run, and test runs of which only the last one passed
C16_PhasesOncePerBatch ==
    batch_call =>
        LET tests == events_of("test")
            statics == events_of("static")
        IN /\ Len(tests) <= MAX_ATTEMPTS
           /\ Len(statics) <= _STATIC_FIX_MAX_ATTEMPTS
           /\ Len(documents) <= 1
           /\ Len(events_of("sync")) <= MAX_ATTEMPTS
           /\ committing =>
                 /\ Len(documents) = 1
                 /\ documents[1].t = batch_called[1]
                 /\ Len(statics) >= 1
                 /\ \A i \in 1..(Len(statics) - 1) : statics[i].x = "issues"
                 /\ Len(tests) >= 1
                 /\ Len(events_of("sync")) = Len(tests)
                 /\ \A i \in 1..Len(tests) : (tests[i].x = "pass") <=> (i = Len(tests))

C16_Witness ==
    /\ batch_call
    /\ pc = "batch_commit"
    /\ Len(batch) = 3
    /\ Len(events_of("test")) = 2
    /\ Len(events_of("static")) = 2
    /\ Len(documents) = 1

\* C17 as stated: a commit of the batch that is given the task's outputs list
\* stages the files of that list and nothing else
C17_StagesOnlyOutputs ==
    (batch_call /\ committing) =>
        \A i \in 1..Len(events_of("commit")) :
            events_of("commit")[i].x = "outputs" =>
                commit_and_merge(TRUE, TRUE, "outputs") = {"outputs"}

\* C17: in a batch that reaches the commit phase commit_and_merge is called
\* once per task, in batch order, after mark_done of the task; in a project
\* with managed git the call of a task that is not the last of the batch and
\* has a non-empty outputs list stages the run state file and the files of that
\* list and nothing else, and the call of the last task, or of a task with an
\* empty outputs list, stages the whole working tree; without managed git no
\* call stages anything
C17_CommitPerTaskInOrder ==
    (batch_call /\ committing) =>
        LET commits == events_of("commit")
            outs == events_of("outputs")
            n == Len(batch_called)
        IN /\ tasks_of(commits) = tasks_of(events_of("mark_done"))
           /\ tasks_of(commits) = tasks_of(outs)
           /\ tasks_of(commits) = tasks_of(events_of("branch"))
           /\ pc = "batch_commit" => tasks_of(commits) = SubSeq(batch, 1, idx - 1)
           /\ pc = "loop" => tasks_of(commits) = batch_called
           /\ \A i \in 1..Len(commits) :
                 /\ commits[i].t \in completed_now
                 /\ commit_and_merge(FALSE, TRUE, commits[i].x) = {}
                 /\ IF i < n /\ outs[i].x = "listed"
                    THEN commit_and_merge(TRUE, TRUE, commits[i].x) = {"state", "outputs"}
                    ELSE commit_and_merge(TRUE, TRUE, commits[i].x) = WorkingTree

C17_Witness ==
    /\ batch_call
    /\ pc = "loop"
    /\ Len(batch_called) = 3
    /\ tasks_of(events_of("commit")) = batch_called
    /\ events_of("commit")[1].x = "outputs"
    /\ events_of("outputs")[2].x = "empty"
    /\ events_of("outputs")[3].x = "listed"
    /\ events_of("commit")[3].x = "all"

\* C18: a batch given to process_parallel_batch has at least 2 and at most
\* MAX_PARALLEL_AGENTS distinct tasks, the first ones of the ready tasks that
\* are not milestones; none of them is a milestone or the first task of the
\* roadmap, and MAX_PARALLEL_AGENTS exceeds 1; process_task and
\* process_milestone are called with one task and no batch
C18_BatchShape ==
    /\ batch # <<>> =>
          /\ pc \notin {"process_task", "attempt_loop", "run_attempt", "finalise_task",
                        "task_failure", "process_milestone"}
          /\ Len(batch) >= 2
          /\ Len(batch) <= MAX_PARALLEL_AGENTS
          /\ MAX_PARALLEL_AGENTS > 1
          /\ \A i, j \in 1..Len(batch) : batch[i] = batch[j] => i = j
          /\ \A i \in 1..Len(batch) :
                /\ ~is_milestone_task(batch[i])
                /\ batch[i] # first_task
          /\ batch = SubSeq(buildable_of(ready), 1, Len(batch))
          /\ first_task \notin Range(ready)
          /\ ~is_milestone_task(ready[1])
    /\ (AtDispatch /\ pc = "process_milestone") =>
          (batch = <<>> /\ is_milestone_task(task) /\ task = ready[1])
    /\ (AtDispatch /\ pc = "process_task") =>
          /\ batch = <<>>
          /\ task \in Range(ready)
          /\ ~is_milestone_task(ready[1])
          /\ \/ task = first_task
             \/ /\ first_task \notin Range(ready)
                /\ task = buildable_of(ready)[1]
                /\ Len(buildable_of(ready)) = 1 \/ MAX_PARALLEL_AGENTS <= 1

C18_Witness ==
    /\ pc = "process_parallel_batch"
    /\ MAX_PARALLEL_AGENTS = 2
    /\ Len(buildable_of(ready)) = 3
    /\ Len(batch) = 2

\* C20: the budget check is the first thing a call of process_task,
\* process_milestone or process_parallel_batch does, before any save of the run
\* state, branch or agent call, and it is not made again later in the call;
\* the process exits with code 2 exactly when the check finds the spend of the
\* month at or above MONTHLY_LIMIT_TOKENS, and that step leaves the run state
\* as it was
C20_BudgetCheckedFirst ==
    /\ [](events # <<>> =>
             /\ events[1].e = "budget"
             /\ \A i \in 2..Len(events) : events[i].e # "budget"
             /\ (events[1].x = "exit") <=> (events[1].t >= MONTHLY_LIMIT_TOKENS)
             /\ (events[1].x = "exit") <=> (pc = "exit2")
             /\ pc = "exit2" => Len(events) = 1)
    /\ [](pc = "exit2" => events # <<>>)
    /\ [][(pc # "exit2" /\ pc' = "exit2") =>
             /\ pc \in {"process_task", "process_milestone", "process_parallel_batch"}
             /\ events = <<>>
             /\ state' = state]_vars

C20_Witness ==
    /\ pc = "exit2"
    /\ via = "resume"
    /\ events = <<Ev("budget", MONTHLY_LIMIT_TOKENS, "exit")>>
    /\ state.current_task = task
    /\ state.attempt = 1

\* ---- properties of the project budget (SpecBudget) -------------------------

\* the sum of max(0, delta) over the first n calls
RECURSIVE sum_counted(_, _)
sum_counted(cs, n) ==
    IF n = 0 THEN 0
    ELSE (IF cs[n].delta > 0 THEN cs[n].delta ELSE 0) + sum_counted(cs, n - 1)

\* C19: after K record_project_spend calls in a row on a project without a
\* budget file, with any deltas, the file has total_calls = K, K session
\* records in call order, each with the task, the phase and max(0, delta) of
\* its call, and total_tokens is the sum of max(0, delta) over the calls; no
\* call makes total_tokens smaller
C19_SpendTotals ==
    /\ [](LET K == Len(spend_calls)
              data == load_project_budget(budget)
          IN /\ budget.exists <=> K > 0
             /\ data.total_calls = K
             /\ Len(data.sessions) = K
             /\ \A i \in 1..K :
                   /\ data.sessions[i].task = spend_calls[i].task
                   /\ data.sessions[i].phase = spend_calls[i].phase
                   /\ data.sessions[i].tokens =
                         (IF spend_calls[i].delta > 0 THEN spend_calls[i].delta ELSE 0)
             /\ data.total_tokens = sum_counted(spend_calls, K))
    /\ [][budget'.total_tokens >= budget.total_tokens]_vars

C19_Witness ==
    /\ Len(spend_calls) = 3
    /\ spend_calls[1].delta = -1
    /\ spend_calls[2].delta = 0
    /\ spend_calls[3].delta = 2
    /\ budget.total_calls = 3
    /\ budget.total_tokens = 2
    /\ Len(budget.sessions) = 3

\* ---- properties of the task graph functions (SpecGraph) -------------------

position(t) == CHOOSE i \in DOMAIN all_tasks : all_tasks[i] = t

layer_index(t) == CHOOSE i \in DOMAIN layers : t \in Range(layers[i])

\* the layers that still hold a task outside done
open_layers == {i \in DOMAIN layers : \E t \in Range(layers[i]) : t \notin done_set}

first_open_layer == CHOOSE i \in open_layers : \A j \in open_layers : i <= j

RECURSIVE ancestors(_, _)
ancestors(S, n) ==
    IF n = 0 THEN S ELSE ancestors(S \cup UNION {graph[d] : d \in S}, n - 1)

Acyclic == \A t \in TaskIds : t \notin ancestors(graph[t], NumTasks)

\* C6: every task get_ready_tasks returns is in the first layer that holds a
\* task outside done, is outside done, and has all its dependencies in done; so
\* a task of that layer with a dependency outside done is not returned
C6_ReadySound ==
    pc = "graph" =>
        IF open_layers = {} THEN ready = <<>>
        ELSE \A t \in Range(ready) :
                /\ t \in Range(layers[first_open_layer])
                /\ t \notin done_set
                /\ graph[t] \subseteq done_set

C6_Witness ==
    /\ pc = "graph"
    /\ ready # <<>>
    /\ \E u \in Range(layers[first_open_layer]) :
          /\ u \notin done_set
          /\ ~(graph[u] \subseteq done_set)
          /\ u \notin Range(ready)

\* C7: in an acyclic graph over the defined ids, get_task_layers puts every
\* task in a layer strictly after the layer of each of its dependencies
C7_LayersRespectDeps ==
    (pc = "layers" /\ Acyclic) =>
        \A t \in TaskIds : \A d \in graph[t] : layer_index(d) < layer_index(t)

C7_Witness ==
    /\ pc = "layers"
    /\ Acyclic
    /\ \E t \in TaskIds : Cardinality(graph[t]) = 2

\* C8: a layer of get_task_layers that holds a milestone task holds nothing else
C8_MilestoneAlone ==
    pc = "layers" =>
        \A i \in DOMAIN layers :
            (\E t \in Range(layers[i]) : is_milestone_task(t)) => Len(layers[i]) = 1

C8_Witness ==
    /\ pc = "layers"
    /\ Cardinality({t \in TaskIds : graph[t] = {} /\ is_milestone_task(t)}) >= 2
    /\ Len(layers[1]) = 1

\* C9: get_ready_tasks returns its tasks in the order of the roadmap's task
\* list, and a task with two dependencies only once both are in done
C9_ReadyInRoadmapOrder ==
    pc = "graph" =>
        /\ \A i, j \in DOMAIN ready : i < j => position(ready[i]) < position(ready[j])
        /\ \A t \in Range(ready) : Cardinality(graph[t]) = 2 => graph[t] \subseteq done_set

C9_Witness ==
    /\ pc = "graph"
    /\ all_tasks = Ascending
    /\ graph[2] = {1}
    /\ graph[3] = {1}
    /\ done_set = {1}
    /\ ready = <<2, 3>>

\* C10 as the specification states it: get_ready_tasks returns no task that
\* depends on itself and no task that depends on a task with a greater id
C10_NoSelfNoForward ==
    pc = "graph" =>
        \A t \in Range(ready) : t \notin graph[t] /\ \A d \in graph[t] : d < t

\* C10, as the code has it: get_ready_tasks returns no task that depends on
\* itself, and a returned task's dependency with a greater id is in done
C10_NoSelfForwardDone ==
    pc = "graph" =>
        \A t \in Range(ready) :
            /\ t \notin graph[t]
            /\ \A d \in graph[t] : d > t => d \in done_set

C10_Witness ==
    /\ pc = "graph"
    /\ \E t \in Range(ready) : \E d \in graph[t] : d > t

\* ---- claims about the run state functions (SpecState) -------------------

\* the entries of completed that name the task
entries_for(st, t) == {i \in DOMAIN st.completed : st.completed[i].task = t}

\* the call just made is mark_done of a task that was completed before it
second_mark_done == pc' = "marked_done" /\ task' \in _completed_tasks(state)

\* C21 as the specification states it: a second mark_done(T), whatever the
\* state operations in between, appends nothing to task_durations
C21_SecondAppendsNothing ==
    [][second_mark_done => state'.task_durations = state.task_durations]_vars

\* C21, as the code has it: completed never holds two entries for one task and
\* holds exactly one for T after mark_done(T); a second mark_done(T) leaves
\* completed as it was, and appends one duration exactly when a
\* save_runner_state with attempt 0 in between has stamped task_started_at
C21_MarkDoneOnce ==
    /\ [](/\ \A t \in TaskIds : Cardinality(entries_for(state, t)) <= 1
          /\ pc = "marked_done" => Cardinality(entries_for(state, task)) = 1)
    /\ [][second_mark_done =>
            /\ state'.completed = state.completed
            /\ state'.task_durations =
                 state.task_durations + (IF state.task_started_at THEN 1 ELSE 0)]_vars

\* one task is completed and two calls of mark_done for it have each added a duration
C21_Witness ==
    /\ pc = "marked_done"
    /\ _completed_tasks(state) = {task}
    /\ state.task_durations = 2

\* the number of characters of a text, None for the text that is None
text_len(text) == IF text = NoText THEN NoLogs ELSE text[2] - text[1] + 1

\* C22: save_runner_state(T, a, L) followed by load_runner_state returns
\* current_task = T, attempt = a, and as fix_logs the whole of L when L has at
\* most 3000 characters (or is None), otherwise the last 3000 characters of L
C22_SaveThenLoad ==
    pc = "saved" =>
        /\ load_runner_state.current_task = task
        /\ load_runner_state.attempt = attempt
        /\ load_runner_state.fix_logs = text_len(fix_logs_text)
        /\ fix_logs_text =
             IF fix_logs = NoLogs THEN NoText
             ELSE IF fix_logs <= FixLogsLimit THEN <<1, fix_logs>>
             ELSE <<fix_logs - FixLogsLimit + 1, fix_logs>>

\* a test output of 3001 characters was saved at attempt 1 over a completed
\* task: characters 2 to 3001 are loaded
C22_Witness ==
    /\ pc = "saved"
    /\ attempt = 1
    /\ fix_logs = FixLogsLimit + 1
    /\ load_runner_state.fix_logs = FixLogsLimit
    /\ fix_logs_text = <<2, FixLogsLimit + 1>>
    /\ state.completed # <<>>

\* C23: after mark_done(T), whatever in-progress state was saved before, the
\* run state has no current task (load_runner_state returns None), attempt 0,
\* no fix logs and no task_started_at, and task_done(T) is true
C23_MarkDoneClears ==
    pc = "marked_done" =>
        /\ state.current_task = NoTask
        /\ load_runner_state = _raw_state_absent
        /\ state.attempt = 0
        /\ state.fix_logs = NoLogs
        /\ fix_logs_text = NoText
        /\ ~state.task_started_at
        /\ task_done(task)

\* mark_done of a task saved in progress at attempt 1 with a start time: the
\* entry carries 2 attempts, a duration was added, nothing was marked failed
C23_Witness ==
    /\ pc = "marked_done"
    /\ state.completed = <<[task |-> task, attempts |-> 2]>>
    /\ state.task_durations = 1
    /\ state.failed = <<>>
    /\ load_runner_state = _raw_state_absent

\* C24: mark_task_failed(T, info) appends exactly one entry for T, carrying
\* info, to failed, clears current_task, attempt, fix_logs and task_started_at,
\* and leaves completed and task_durations unchanged: T is completed after the
\* call only if it was completed before it
C24_MarkFailedFrame ==
    [][pc' = "marked_failed" =>
         /\ state'.failed = Append(state.failed, [task |-> task', attempts |-> attempt'])
         /\ state'.completed = state.completed
         /\ state'.task_durations = state.task_durations
         /\ state'.current_task = NoTask
         /\ state'.attempt = 0
         /\ state'.fix_logs = NoLogs
         /\ ~state'.task_started_at
         /\ fix_logs_text' = NoText
         /\ (task' \in _completed_tasks(state')) = (task' \in _completed_tasks(state))]_vars

\* a task that is not completed was marked failed after its 2 attempts, next
\* to a completed task with a duration
C24_Witness ==
    /\ pc = "marked_failed"
    /\ state.failed = <<[task |-> task, attempts |-> 2]>>
    /\ state.completed # <<>>
    /\ state.task_durations = 1
    /\ ~task_done(task)
    /\ load_runner_state = _raw_state_absent

\* ---- claims about the review gate and the static checks (Spec) -----------

\* the pipeline call that has just returned to main's loop ended with the
\* reviewer's reject
rejected_now ==
    /\ pc = "loop"
    /\ Len(events) > 0
    /\ events[Len(events)] = Ev("review", events[Len(events)].t, "reject")

rejected_task == events[Len(events)].t

DispatchPoints == {"process_task", "process_milestone", "process_parallel_batch"}

reject_at(i) == i \in DOMAIN events /\ events[i] = Ev("review", events[i].t, "reject")

static_runs == {i \in DOMAIN events : events[i].e = "static"}
static_fixes == {i \in DOMAIN events : events[i].e = "agent" /\ events[i].x = "static_fix"}

first_index(S) == CHOOSE i \in S : \A j \in S : i <= j
last_index(S) == CHOOSE i \in S : \A j \in S : j <= i

C27_NoGitUnlessEnabled ==
    ~(git_block.dict /\ git_block.enabled = "True") =>
        /\ git_commands = <<>>
        /\ pc = "ensure_feature_branch" => returned = "None"
        /\ pc = "rollback_feature_branch" => returned = "False"
        /\ pc \in {"commit_and_merge", "tag_milestone"} => returned = "None"

\* rollback_feature_branch was called on a roadmap whose git.enabled is the
\* number 1
C27_Witness ==
    /\ git_block = [dict |-> TRUE, enabled |-> "1"]
    /\ pc = "rollback_feature_branch"
    /\ returned = "False"

\* ---- claims about get_task_layers on any graph (SpecGraph) ---------------

\* the places <<layer, position>> of a task in the layers
places(t) ==
    {p \in (DOMAIN layers) \X (1..NumTasks) :
        p[2] \in DOMAIN layers[p[1]] /\ layers[p[1]][p[2]] = t}

\* C28: for every task list and graph, cyclic graphs and self-dependencies
\* included, get_task_layers terminates, after at most one iteration per task,
\* and returns only non-empty layers in which every task of the list appears
\* exactly once
C28_LayersPartition ==
    pc = "layers" =>
        /\ Len(layers) <= NumTasks
        /\ \A i \in DOMAIN layers : layers[i] # <<>>
        /\ \A i \in DOMAIN layers : Range(layers[i]) \subseteq Range(all_tasks)
        /\ \A t \in Range(all_tasks) : Cardinality(places(t)) = 1

\* the layers of a graph with a self-dependency, computed in two iterations
\* or more
C28_Witness ==
    /\ pc = "layers"
    /\ \E t \in TaskIds : t \in graph[t]
    /\ Len(layers) >= 2

\* the tasks placed by the layers before layer i, and the tasks still to place
\* then, in the order of the task list
placed_before(i) == UNION {Range(layers[j]) : j \in 1..(i - 1)}
remaining_at(i) == LET Left(t) == t \notin placed_before(i) IN SelectSeq(all_tasks, Left)

\* when layer i was made no remaining task had all its dependencies placed
stuck_at(i) == \A t \in Range(remaining_at(i)) : ~deps_placed(graph, t, placed_before(i))

\* C30 as the specification states it: whenever no remaining task has all of
\* its dependencies placed, all remaining tasks are placed together into one
\* single layer
C30_AllRemainingInOneLayer ==
    pc = "layers" =>
        \A i \in DOMAIN layers : stuck_at(i) => layers[i] = remaining_at(i)

\* C30, as the code has it: whenever no remaining task has all of its
\* dependencies placed, all remaining tasks are the candidates of the layer:
\* when none of them is a milestone they are placed together into one single
\* layer, the last one; when one is, the first remaining milestone of the task
\* list is placed alone and the other tasks stay to be placed
C30_FallbackLayer ==
    pc = "layers" =>
        \A i \in DOMAIN layers :
            stuck_at(i) =>
                LET IsMs(t) == is_milestone_task(t)
                    milestones == SelectSeq(remaining_at(i), IsMs)
                IN IF milestones = <<>>
                   THEN layers[i] = remaining_at(i) /\ i = Len(layers)
                   ELSE layers[i] = <<milestones[1]>>

\* a cycle without a milestone, reached after a first layer: its tasks share
\* the last layer
C30_Witness ==
    /\ pc = "layers"
    /\ \E i \in DOMAIN layers : i >= 2 /\ stuck_at(i) /\ Len(layers[i]) >= 2

\* ---- claims about dry-run mode (SpecDry) ---------------------------------

\* C29: running dry-run mode, by agentik --dry-run or by the 'dryrun' choice
\* of the pipeline menu, leaves the run-state file, the budget file, the
\* project working tree and the git repository exactly as they were
C29_DryRunMutatesNothing ==
    [][pc' \in {"cli_dry_run", "menu_dry_run"} =>
         /\ state' = state
         /\ budget' = budget
         /\ tree' = tree
         /\ git_commands' = git_commands]_vars

\* ---- crashes and the run state (Spec) -------------------------------------

\* the tasks the pipeline call that is under way was given
in_progress == IF batch # <<>> THEN Range(batch) ELSE {task}

\* C31: a crash during any phase of any pipeline, the build fan-out of a
\* parallel batch included, leaves a run state from which load_runner_state
\* returns the task in progress and the index of the attempt under way
C31_CrashLeavesResumable ==
    pc = "aborted" =>
        /\ load_runner_state.current_task \in in_progress
        /\ load_runner_state.attempt = attempt

\* ---- claims about rollback_feature_branch (SpecGit) ------------------------

\* the git commands the call that has just returned issued
issued_now == SubSeq(git_commands', Len(git_commands) + 1, Len(git_commands'))

\* C36: rollback_feature_branch on a git-managed project: when the hard reset
\* fails it returns False and issues no further git command; when the reset
\* succeeds it cleans untracked files, checks out develop and deletes the
\* feature branch, in that order, and returns True
C36_RollbackStopsAtFailedReset ==
    [][(pc' = "rollback_feature_branch" /\ git_block.dict /\ git_block.enabled = "True") =>
          /\ Len(issued_now) >= 1
          /\ issued_now[1] = "reset --hard (exit 1)" =>
                 /\ issued_now = <<"reset --hard (exit 1)">>
                 /\ returned' = "False"
          /\ issued_now[1] # "reset --hard (exit 1)" =>
                 /\ issued_now = <<"reset --hard", "clean -fd", "checkout develop", "branch -D">>
                 /\ returned' = "True"]_vars

\* a rollback whose reset failed has returned, after one whose reset succeeded
C36_Witness ==
    /\ pc = "rollback_feature_branch"
    /\ returned = "False"
    /\ git_block = [dict |-> TRUE, enabled |-> "True"]
    /\ Len(git_commands) >= 5
    /\ git_commands[Len(git_commands)] = "reset --hard (exit 1)"
    /\ git_commands[Len(git_commands) - 1] = "branch -D"

\* ---- claims about the completed list in a run (Spec) ----------------------

C39_MarkDoneBeforeCommit ==
    \A j \in DOMAIN events :
        events[j].e = "commit" =>
            /\ j > 1
            /\ events[j - 1] = Ev("mark_done", events[j].t, "")
            /\ events[j].t \in completed_now

\* a batch of three has been committed task by task
C39_Witness ==
    /\ pc = "loop"
    /\ Len(events_of("commit")) = 3
    /\ Len(events_of("mark_done")) = 3

\* ---- claims about the review gate in every pipeline (SpecReview) ----------

\* C38: a task for which review is enabled, by its own flag or else by the
\* project's, is marked done and committed only after the reviewer's approve
\* was given for it in the same pipeline call, in the single-task pipeline and
\* in a parallel batch alike
C38_CommitOnlyAfterApprove ==
    \A j \in DOMAIN events :
        (events[j].e = "commit" /\ is_review_enabled(events[j].t)) =>
            \E i \in 1..(j - 1) : events[i] = Ev("review", events[j].t, "approve")

\* ---- claims about the linter and the scheduler (SpecLint) -----------------

\* C33: on a roadmap that passes run_checks, any two tasks main's loop puts
\* in one parallel batch have disjoint outputs lists
C33_BatchOutputsDisjoint ==
    pc = "process_parallel_batch" =>
        \A a, b \in Range(batch) : a # b => outputs[a] \cap outputs[b] = {}

\* ---- properties of the worker threads of a batch build (SpecPool) ----------

\* every worker thread of the batch has returned or raised
pool_finished ==
    /\ workers # <<>>
    /\ \A i \in DOMAIN workers : workers[i].pc \in {"returned", "raised"}

\* the sessions of budget.json that come after those of before the batch
new_sessions ==
    {j \in DOMAIN budget.sessions : j > Len(budget_before_batch.sessions)}

\* C32: when the worker threads of a batch of N builds have all finished,
\* budget.json has total_calls N larger than before the batch and N new
\* session records, one for each task of the batch
C32_NoBudgetUpdateLost ==
    pool_finished =>
        /\ budget.total_calls = budget_before_batch.total_calls + Len(batch)
        /\ Cardinality(new_sessions) = Len(batch)
        /\ \A i \in DOMAIN batch :
               Cardinality({j \in new_sessions : budget.sessions[j].task = batch[i]}) = 1

\* C40: when the worker threads of a batch have all finished, the token
\* deltas handed to record_project_spend add up to the growth of the
\* cumulative counter of opencode stats over the batch
C40_TokensCountedOnce ==
    pool_finished =>
        sum_counted(spend_calls, Len(spend_calls)) = usage - usage_before_batch

\* ---- properties of the files under crashes and bad texts (SpecFile) --------

\* C34: when the process is killed, at any point of a write of
\* .runner_state.json or of budget.json, neither file is left with a part of
\* its text, and every task whose mark_done call has returned is in the
\* completed list that is read from .runner_state.json afterwards
C34_NoHalfWrittenFile ==
    pc = "crashed" =>
        /\ file_text.state # "cut"
        /\ file_text.budget # "cut"
        /\ done_set \subseteq _completed_tasks(_raw_state(file_text.state, state))

\* the last call was load_runner_state, task_done or mark_done and the text
\* it read was not the text of a run state
read_malformed ==
    /\ events # <<>>
    /\ events[1].e \in {"load_runner_state", "task_done", "mark_done"}
    /\ events[1].x # "json"

\* C35: load_runner_state, task_done and mark_done called on a file whose
\* text is not that of a run state, whatever the text, do not raise and go on
\* from the empty state: mark_done writes the state with its task alone
C35_MalformedReadsAsEmpty ==
    read_malformed =>
        /\ returned = "none"
        /\ pc # "raised"
        /\ pc = "mark_done" => state = mark_done(_raw_state_absent, events[1].t)

====
